---- MODULE Spec2Model ----
(***************************************************************************)
(* Verification model of the CSV ingestion worker.                         *)
(*                                                                         *)
(* Part 1 (Spec, JobSpec): the batch pipeline validateAndProcessCSVStream  *)
(* on the JavaScript event loop.  Promise reactions are queued in the FIFO *)
(* `microtasks`; parser events and commit completions are tasks of the     *)
(* event loop and start only when the microtask queue is empty.  The       *)
(* exception is a run of rows that the parser emits synchronously, one     *)
(* after the other, without waiting for the async data handler             *)
(* (burstOpen).  The resumption of a data handler after                    *)
(* `await processBatchAsync(...)` only logs and is not queued.  JobSpec    *)
(* adds the jobs row that the progress writes of the run are applied to.   *)
(*                                                                         *)
(* Part 2 (RetrySpec): withRetry of utils/database.                        *)
(*                                                                         *)
(* Part 3 (ChunkSpec): getUploadChunks and the Readable returned by        *)
(* downloadChunksAsStream.  A chunk is a number of 64 KB sub-chunks; a     *)
(* delivered sub-chunk is <<chunk number, position>>.  Chunk paths are     *)
(* taken to contain ".part" once.                                          *)
(*                                                                         *)
(* Part 4 (WorkerSpec, LifecycleSpec): workerLoop, gracefulShutdown and    *)
(* processCSVJob over the tables jobs and uploads.  Every awaited call of  *)
(* processCSVJob is one step that either is applied and returns, or fails  *)
(* (after its retries) with nothing applied; the ingestion of the file is  *)
(* reduced to its outcome, its commits and its un-awaited progress writes. *)
(* WorkerSpec adds the shutdown signal; LifecycleSpec follows one job      *)
(* through failed runs, with a scheduler outside the worker putting a      *)
(* retrying job back in the queue.  The hourly performCleanup of the loop  *)
(* is left out.                                                            *)
(*                                                                         *)
(* Part 5: single functions of the pipeline, each under a specification    *)
(* that draws its inputs and applies it.  SizingSpec: the batch size in    *)
(* use and the batches it yields.  HashSpec: normalizeAndHashUrl with the  *)
(* job's hash cache, over the URLs of accepted rows.  HeaderSpec: the      *)
(* header search of preprocessCSVStream.  ProgressSpec: the calls of the   *)
(* progress callback for consecutive batch numbers.                        *)
(*                                                                         *)
(* Part 6: BeatSpec follows one row of the jobs table, with its two        *)
(* timestamps, under the calls of updateJobProgress that the program       *)
(* makes.  CallSpec follows one call of a function of utils/database over  *)
(* a database that fails a number of requests before it answers.           *)
(*                                                                         *)
(* ChunkFairSpec and WorkerFairSpec are the chunk reader and the worker    *)
(* (without a shutdown signal) under weak fairness of their steps.         *)
(***************************************************************************)
EXTENDS Integers, Sequences, FiniteSets, TLC

\* ---------------------------------------------------------------- bounds
MaxRows == 3
MaxBatchSize == 2
MaxConcurrency == 2
MaxEstimatedBatches == 1
MaxRetryCeiling == 6
MaxSubChunks == 2
MaxJobs == 1
MaxTicks == 1
MaxCommits == 1
MaxAcceptedRows == 2450
MaxUrlLen == 4
MaxLines == 3
MaxBatchNumber == 30
MaxProgressEstimate == 40
MaxClock == 2
MaxTransient == 2

\* ------------------------------------------------------ program constants
PROGRESS_UPDATE_INTERVAL == 10
\* RETRY_CONFIG
RETRY_maxRetries == 3
RETRY_baseDelay == 1000
RETRY_maxDelay == 10000
RETRY_exponentialBackoff == TRUE
\* ceilings passed by getNextJob to withRetry and by processCSVJob's catch
\* block (default parameter) to markJobFailed
getNextJob_maxRetries == 2
markJobFailed_maxRetries == 3

VARIABLES
  \* pipeline configuration (arguments of validateAndProcessCSVStream)
  batchSize, maxConcurrency, estimatedTotalBatches,
  \* locals of validateAndProcessCSVStream
  totalRows, validRows, batch, batchCounter,
  \* the row last handed to the data handler by the parser
  csvRow,
  \* BatchManager
  activeBatches, processedCount, duplicateCount, errorCount,
  \* one entry per formed batch (per call of processBatchAsync)
  tasks,
  \* event loop
  microtasks, burstOpen,
  \* end handler and result promise
  parserEnded, allRemaining, result,
  \* persisted job row and the progress writes on their way to it
  jobStatus, jobProgress, inflightWrites, progressCalls, ctlPc, uploadStatus

pipeVars == <<batchSize, maxConcurrency, estimatedTotalBatches,
              totalRows, validRows, batch, batchCounter, csvRow,
              activeBatches, processedCount, duplicateCount, errorCount,
              tasks, microtasks, burstOpen, parserEnded, allRemaining, result,
              jobStatus, jobProgress, inflightWrites, progressCalls, ctlPc,
              uploadStatus>>

VARIABLES
  \* withRetry: parameter, loop state and what the caller observes
  maxRetries, attempt, retryPc, calls, sleeps, history, lastError, thrown

retryVars == <<maxRetries, attempt, retryPc, calls, sleeps, history,
               lastError, thrown>>

VARIABLES
  \* storage: the files listed under the upload and their sizes in sub-chunks
  listing, sizes,
  \* downloadChunksAsStream: its promise, the sorted chunks, locals of read()
  prepState, chunks, currentChunkIndex, isReading, streamEnded, offset,
  readPc,
  \* the Readable: its reading flag, what was pushed, the consumer's promise
  nodeReading, delivered, pushedEnd, errorEmitted, consumer

chunkVars == <<listing, sizes, prepState, chunks, currentChunkIndex,
               isReading, streamEnded, offset, readPc, nodeReading,
               delivered, pushedEnd, errorEmitted, consumer>>

VARIABLES
  \* worker-state module
  isRunning, isShuttingDown, currentJob,
  \* workerLoop: position, the claim call and its answer, the polled record
  loopPc, claimAttempt, claimRpc, claimResult, polled,
  \* the process and gracefulShutdown
  processState, shutdownPc, timeoutElapsed, signalJob,
  \* tables jobs and uploads, stored chunks, un-awaited writes on their way
  jobs, uploads, storage, pending,
  \* processCSVJob: position, heartbeat timer, catch-block locals, result
  jobPc, heartbeatTimer, ticks, commits, errorMessage, attemptsRead, returned,
  \* history: effects of the current run in order, the rows at its claim,
  \* jobs whose succeeded write was applied, jobs put in the current-job slot
  runLog, before, succeededWritten, handled

workerStateVars == <<isRunning, isShuttingDown, currentJob>>
claimVars == <<claimAttempt, claimRpc, claimResult>>
shutdownVars == <<shutdownPc, timeoutElapsed, signalJob>>
dbVars == <<jobs, uploads, storage, pending>>
runVars == <<jobPc, heartbeatTimer, ticks, commits, errorMessage,
             attemptsRead, returned, runLog, before>>
workerVars == <<workerStateVars, claimVars, shutdownVars, dbVars, runVars,
                loopPc, polled, processState, succeededWritten, handled>>

VARIABLES
  \* batch sizing: processCSVJob's BATCH_SIZE and upload.bytes_total, the
  \* size validateAndProcessCSVStream works with, the data handler's
  \* validRows and batch.length, the lengths of the batches handed to
  \* processBatchAsync, and whether the end handler ran
  configuredBatchSize, fileSizeBytes, optimizedBatchSize, acceptedRows,
  batchLength, handedOff, sizingEnded

sizeVars == <<configuredBatchSize, fileSizeBytes, optimizedBatchSize,
              acceptedRows, batchLength, handedOff, sizingEnded>>

VARIABLES
  \* URL hashing: two URLs of accepted rows, the job the worker is in, its
  \* jobHashCache, what normalizeAndHashUrl returned for each URL, position
  urlA, urlB, hashJob, hashCache, hashOutA, hashOutB, hashPc

hashVars == <<urlA, urlB, hashJob, hashCache, hashOutA, hashOutB, hashPc>>

VARIABLES
  \* preprocessCSVStream: the lines of the accumulated csvData, the index
  \* found (-1: none), and how the returned promise settled
  lines, headerRowIndex, preprocessed

headerVars == <<lines, headerRowIndex, preprocessed>>

VARIABLES
  \* progress reporting: estimatedTotalBatches of the run, the number of
  \* processBatch calls that have finished, the calls of onProgress so far
  \* (batch 0: the calls of validateAndProcessCSVStream itself), end reached
  progressEstimate, finishedBatches, reported, progressEnded

progressVars == <<progressEstimate, finishedBatches, reported, progressEnded>>

VARIABLES
  \* one row of the jobs table under the calls of updateJobProgress: its
  \* columns, its two timestamps, the database clock, and the call of
  \* updateJobProgress applied last (if no other statement came after it)
  \* with the row as it was before
  beatRow, beatStamps, beatNow, beatCall

beatVars == <<beatRow, beatStamps, beatNow, beatCall>>

VARIABLES
  \* one call of a function of utils/database: the function, the number of
  \* requests the database fails before it answers, and how a function
  \* that sends its request without withRetry settled
  boundaryCall, transientFailures, directResult

callVars == <<boundaryCall, transientFailures, directResult>>

lateVars == <<beatVars, callVars>>

\* the parts that follow single functions of the pipeline
auxVars == <<sizeVars, hashVars, headerVars, progressVars, lateVars>>

vars == <<pipeVars, retryVars, chunkVars, workerVars, auxVars>>

\* the variables each part of the model leaves alone
nonPipeVars == <<retryVars, chunkVars, workerVars, auxVars>>
nonRetryVars == <<pipeVars, chunkVars, workerVars, auxVars>>
nonChunkVars == <<pipeVars, retryVars, workerVars, auxVars>>
nonWorkerVars == <<pipeVars, retryVars, chunkVars, auxVars>>
mainVars == <<pipeVars, retryVars, chunkVars, workerVars>>
nonSizeVars == <<mainVars, hashVars, headerVars, progressVars, lateVars>>
nonHashVars == <<mainVars, sizeVars, headerVars, progressVars, lateVars>>
nonHeaderVars == <<mainVars, sizeVars, hashVars, progressVars, lateVars>>
nonProgressVars == <<mainVars, sizeVars, hashVars, headerVars, lateVars>>
oldAuxVars == <<sizeVars, hashVars, headerVars, progressVars>>
nonBeatVars == <<mainVars, oldAuxVars, callVars>>
nonCallVars == <<pipeVars, chunkVars, workerVars, oldAuxVars, beatVars>>

\* ------------------------------------------------------------- helpers
Min(a, b) == IF a < b THEN a ELSE b
Max(a, b) == IF a > b THEN a ELSE b

RECURSIVE SumLen(_, _)
\* sum of the batch sizes of the tasks of ts whose index is in S
SumLen(ts, S) ==
  IF S = {} THEN 0
  ELSE LET i == CHOOSE x \in S : TRUE
       IN Len(ts[i].rows) + SumLen(ts, S \ {i})

\* processBatch without the clamp of the progress value
batchProgress_unclamped(batchNumber, est) == ((batchNumber * 80) \div est) + 10

\* progress value of processBatch for a batch number
batchProgress(batchNumber, est) ==
  Min(Max(((batchNumber * 80) \div est) + 10, 10), 90)

\* the callback passed by processCSVJob: updateJobProgress(id, "running", p)
onProgress(writes, p) == writes \cup {[status |-> "running", progress |-> p]}

\* ---- rows and their validation
\* a parsed row, reduced to the three fields validateCSVRow reads
\* (parseLinkedInRow replaces a missing field by "")
NoRow == [first |-> "-", last |-> "-", url |-> "-"]
RowShapes ==
  { [first |-> "Ann", last |-> "Lee", url |-> "https://www.linkedin.com/in/ann-lee"],
    [first |-> "",    last |-> "Lee", url |-> "https://www.linkedin.com/in/ann-lee"],
    [first |-> "Ann", last |-> "",    url |-> "https://www.linkedin.com/in/ann-lee"],
    [first |-> "Ann", last |-> "Lee", url |-> ""],
    [first |-> "Ann", last |-> "Lee", url |-> "https://example.com/ann-lee"] }

\* /linkedin\.com\/in\//i.test(url), over the URLs of RowShapes
urlPattern_test(url) == url = "https://www.linkedin.com/in/ann-lee"

\* validateCSVRow without the test of the URL field
validateCSVRow_noUrlCheck(r) == r.first # "" /\ r.last # ""

\* validateCSVRow: the three required fields are non-empty and the URL
\* matches the profile-URL pattern
validateCSVRow(r) ==
  /\ ~(r.first = "" /\ r.last = "" /\ r.url = "")
  /\ ~(r.first = "" \/ r.last = "" \/ r.url = "")
  /\ urlPattern_test(r.url)

\* a promise reaction registered on the batch promises in ps
RegisterOn(ts, ps, r) ==
  [i \in DOMAIN ts |->
     IF i \in ps THEN [ts[i] EXCEPT !.reactions = Append(@, r)] ELSE ts[i]]

\* waitForBatchSlot, one evaluation of the loop condition for task w:
\* either the function returns (the awaiting processBatchAsync is queued)
\* or it awaits Promise.race over the batches active right now.
waitForBatchSlot(ts, mq, w) ==
  IF Cardinality(activeBatches) >= maxConcurrency
  THEN [tasks |-> RegisterOn(
                    [ts EXCEPT ![w].pc = "racing", ![w].gen = @ + 1],
                    activeBatches,
                    [kind |-> "race", w |-> w, gen |-> ts[w].gen + 1]),
        microtasks |-> mq]
  ELSE [tasks |-> [ts EXCEPT ![w].pc = "slotFree"],
        microtasks |-> Append(mq, [kind |-> "handoff", t |-> w, gen |-> 0,
                                   rej |-> FALSE])]

\* processBatch: `manager.<counter> += n`
addTo(count, n) == count + n

\* the data handler leaving the rows of the full batch in `batch`
resetBatch_kept(b) == b

\* the data handler after `batchToProcess = [...batch]`: `batch = []`
resetBatch(b) == <<>>

NewTask(rows, owner) ==
  [rows |-> rows, owner |-> owner, pc |-> "new", num |-> 0, gen |-> 0,
   outcome |-> "none", ins |-> 0, settle |-> "pending", reactions |-> <<>>]

\* processBatch with a catch block that rethrows
processBatchSettle_rethrow(outcome) ==
  IF outcome = "fail" THEN "rejected" ELSE "fulfilled"

\* how the promise of processBatch settles for a commit outcome: the catch
\* block swallows the error, so the promise is always fulfilled
processBatchSettle(outcome) == "fulfilled"

\* Promise.all(Array.from(manager.activeBatches)) of the end handler
awaitAllActive(ts, mq) ==
  IF activeBatches = {}
  THEN [tasks |-> ts, remaining |-> 0,
        microtasks |-> Append(mq, [kind |-> "endFinish", t |-> 0, gen |-> 0,
                                   rej |-> FALSE])]
  ELSE [tasks |-> RegisterOn(ts, activeBatches,
                             [kind |-> "all", w |-> 0, gen |-> 0]),
        remaining |-> Cardinality(activeBatches),
        microtasks |-> mq]

\* ---------------------------------------------------------------- Init
PipeInit ==
  /\ batchSize \in 1..MaxBatchSize
  /\ maxConcurrency \in 1..MaxConcurrency
  /\ estimatedTotalBatches \in 1..MaxEstimatedBatches
  /\ totalRows = 0 /\ validRows = 0 /\ batch = <<>> /\ batchCounter = 0
  /\ csvRow = NoRow
  /\ activeBatches = {} /\ processedCount = 0 /\ duplicateCount = 0
  /\ errorCount = 0
  /\ tasks = <<>>
  /\ microtasks = <<>> /\ burstOpen = FALSE
  /\ parserEnded = FALSE /\ allRemaining = 0
  /\ result = [state |-> "pending", processed |-> 0, duplicates |-> 0,
               total |-> 0]
  \* processCSVJob has written (running, 0); the pipeline starts with
  \* onProgress(10), fire and forget
  /\ jobStatus = "running" /\ jobProgress = 0
  /\ inflightWrites = onProgress({}, 10)
  /\ progressCalls = <<10>>
  /\ ctlPc = "ingest"
  /\ uploadStatus = "processing"

\* the pipeline at rest, for the specifications of the other parts
PipeIdle ==
  /\ batchSize = 1 /\ maxConcurrency = 1 /\ estimatedTotalBatches = 1
  /\ totalRows = 0 /\ validRows = 0 /\ batch = <<>> /\ batchCounter = 0
  /\ csvRow = NoRow
  /\ activeBatches = {} /\ processedCount = 0 /\ duplicateCount = 0
  /\ errorCount = 0
  /\ tasks = <<>>
  /\ microtasks = <<>> /\ burstOpen = FALSE
  /\ parserEnded = FALSE /\ allRemaining = 0
  /\ result = [state |-> "pending", processed |-> 0, duplicates |-> 0,
               total |-> 0]
  /\ jobStatus = "queued" /\ jobProgress = 0
  /\ inflightWrites = {}
  /\ progressCalls = <<>>
  /\ ctlPc = "idle"
  /\ uploadStatus = "queued"

\* -------------------------------------------------------------- actions
\* parser.on("data"): one row, up to the first await of the handler
RowArrives(r) ==
  /\ ~parserEnded
  /\ totalRows < MaxRows
  /\ microtasks = <<>> \/ burstOpen
  /\ totalRows' = totalRows + 1
  /\ burstOpen' = TRUE
  /\ csvRow' = r
  /\ IF ~validateCSVRow(r)
     THEN UNCHANGED <<validRows, batch, tasks, microtasks>>
     ELSE /\ validRows' = validRows + 1
          /\ IF Len(batch) + 1 >= batchSize
             THEN LET t == Len(tasks) + 1
                      ts == Append(tasks,
                              NewTask(Append(batch, totalRows + 1), "data"))
                      w == waitForBatchSlot(ts, microtasks, t)
                  IN /\ batch' = resetBatch(batch)
                     /\ tasks' = w.tasks
                     /\ microtasks' = w.microtasks
             ELSE /\ batch' = Append(batch, totalRows + 1)
                  /\ UNCHANGED <<tasks, microtasks>>
  /\ UNCHANGED <<batchSize, maxConcurrency, estimatedTotalBatches,
                 batchCounter, activeBatches, processedCount, duplicateCount,
                 errorCount, parserEnded, allRemaining, result, jobStatus,
                 jobProgress, inflightWrites, progressCalls, ctlPc,
                 uploadStatus>>
  /\ UNCHANGED nonPipeVars

\* parser.on("end"), up to the first await of the handler; the event is
\* emitted in a later turn of the event loop than the last row
StreamEnds ==
  /\ ~parserEnded
  /\ microtasks = <<>>
  /\ parserEnded' = TRUE
  /\ burstOpen' = FALSE
  /\ IF Len(batch) > 0
     THEN LET t == Len(tasks) + 1
              ts == Append(tasks, NewTask(batch, "end"))
              r == waitForBatchSlot(ts, microtasks, t)
          IN /\ tasks' = r.tasks
             /\ microtasks' = r.microtasks
             /\ UNCHANGED allRemaining
     ELSE LET r == awaitAllActive(tasks, microtasks)
          IN /\ tasks' = r.tasks
             /\ microtasks' = r.microtasks
             /\ allRemaining' = r.remaining
  /\ UNCHANGED <<batchSize, maxConcurrency, estimatedTotalBatches,
                 totalRows, validRows, batch, batchCounter, activeBatches,
                 processedCount, duplicateCount, errorCount, result,
                 jobStatus, jobProgress, inflightWrites, progressCalls, ctlPc,
                 uploadStatus>>
  /\ UNCHANGED <<csvRow, nonPipeVars>>

MT(kind, t, gen, rej) == [kind |-> kind, t |-> t, gen |-> gen, rej |-> rej]

\* the reactions registered on a batch promise, as queued when it settles
ReactionJobs(t, reactions, rej) ==
  [i \in 1..Len(reactions) |->
     CASE reactions[i].kind = "finally" -> MT("finally", t, 0, rej)
       [] reactions[i].kind = "race" ->
            MT("raceReact", reactions[i].w, reactions[i].gen, rej)
       [] OTHER -> MT("allReact", 0, 0, rej)]

\* the commit of batch t finishes and processBatch runs to its end.
\* outcome "ok": one result row with inserted_count = ins and
\* duplicate_count = the rest of the batch; "empty": no result row
\* (`data || []`); "fail": batchInsertConnections threw after its retries
CommitCompletes(t, outcome, ins) ==
  /\ microtasks = <<>>
  /\ t \in DOMAIN tasks
  /\ tasks[t].pc = "inflight"
  /\ ins \in 0..Len(tasks[t].rows)
  /\ outcome = "ok" \/ ins = 0
  /\ LET n == Len(tasks[t].rows)
         settle == processBatchSettle(outcome)
         progressDue == /\ outcome # "fail"
                        /\ tasks[t].num % PROGRESS_UPDATE_INTERVAL = 0
         p == batchProgress(tasks[t].num, estimatedTotalBatches)
     IN /\ processedCount' = IF outcome = "ok" THEN addTo(processedCount, ins)
                             ELSE processedCount
        /\ duplicateCount' = IF outcome = "ok"
                             THEN addTo(duplicateCount, n - ins)
                             ELSE duplicateCount
        /\ errorCount' = IF outcome = "fail" THEN addTo(errorCount, n)
                         ELSE errorCount
        /\ inflightWrites' = IF progressDue THEN onProgress(inflightWrites, p)
                             ELSE inflightWrites
        /\ progressCalls' = IF progressDue THEN Append(progressCalls, p)
                            ELSE progressCalls
        /\ tasks' = [tasks EXCEPT ![t].pc = "settled",
                                  ![t].outcome = outcome,
                                  ![t].ins = ins,
                                  ![t].settle = settle]
        /\ microtasks' = ReactionJobs(t, tasks[t].reactions,
                                      settle = "rejected")
  /\ burstOpen' = FALSE
  /\ UNCHANGED <<batchSize, maxConcurrency, estimatedTotalBatches,
                 totalRows, validRows, batch, batchCounter, activeBatches,
                 parserEnded, allRemaining, result, jobStatus, jobProgress,
                 ctlPc, uploadStatus>>
  /\ UNCHANGED <<csvRow, nonPipeVars>>

\* the event loop runs the oldest queued promise reaction
RunMicrotask ==
  /\ microtasks # <<>>
  /\ burstOpen' = FALSE
  /\ LET m == Head(microtasks)
         rest == Tail(microtasks)
     IN CASE m.kind = "handoff" ->
               \* processBatchAsync after `await waitForBatchSlot(manager)`
               IF m.rej
               THEN /\ tasks' = [tasks EXCEPT ![m.t].pc = "dropped"]
                    /\ microtasks' = rest
                    /\ result' = IF tasks[m.t].owner = "end"
                                    /\ result.state = "pending"
                                 THEN [result EXCEPT !.state = "rejected"]
                                 ELSE result
                    /\ UNCHANGED <<batchCounter, activeBatches, allRemaining,
                                   inflightWrites, progressCalls>>
               ELSE /\ batchCounter' = batchCounter + 1
                    /\ tasks' = [tasks EXCEPT
                                   ![m.t].pc = "inflight",
                                   ![m.t].num = batchCounter + 1,
                                   ![m.t].reactions =
                                      <<[kind |-> "finally", w |-> 0,
                                         gen |-> 0]>>]
                    /\ activeBatches' = activeBatches \cup {m.t}
                    /\ microtasks' =
                         IF tasks[m.t].owner = "end"
                         THEN Append(rest, MT("endAfterHandoff", 0, 0, FALSE))
                         ELSE rest
                    /\ UNCHANGED <<allRemaining, result, inflightWrites,
                                   progressCalls>>
          [] m.kind = "finally" ->
               \* addBatchToManager: batchPromise.finally(...)
               /\ activeBatches' = activeBatches \ {m.t}
               /\ microtasks' = rest
               /\ UNCHANGED <<batchCounter, tasks, allRemaining, result,
                              inflightWrites, progressCalls>>
          [] m.kind = "raceReact" ->
               \* a batch promise settles the Promise.race of waiter m.t
               /\ IF tasks[m.t].pc = "racing" /\ tasks[m.t].gen = m.gen
                  THEN /\ tasks' = [tasks EXCEPT ![m.t].pc = "woken"]
                       /\ microtasks' =
                            Append(rest, MT("resumeSlot", m.t, 0, m.rej))
                  ELSE /\ microtasks' = rest
                       /\ UNCHANGED tasks
               /\ UNCHANGED <<batchCounter, activeBatches, allRemaining,
                              result, inflightWrites, progressCalls>>
          [] m.kind = "resumeSlot" ->
               \* waitForBatchSlot after `await Promise.race(...)`
               /\ IF m.rej
                  THEN /\ microtasks' =
                            Append(rest, MT("handoff", m.t, 0, TRUE))
                       /\ UNCHANGED tasks
                  ELSE LET r == waitForBatchSlot(tasks, rest, m.t)
                       IN /\ tasks' = r.tasks
                          /\ microtasks' = r.microtasks
               /\ UNCHANGED <<batchCounter, activeBatches, allRemaining,
                              result, inflightWrites, progressCalls>>
          [] m.kind = "endAfterHandoff" ->
               \* end handler after `await processBatchAsync([...batch])`
               /\ LET r == awaitAllActive(tasks, rest)
                  IN /\ tasks' = r.tasks
                     /\ microtasks' = r.microtasks
                     /\ allRemaining' = r.remaining
               /\ UNCHANGED <<batchCounter, activeBatches, result,
                              inflightWrites, progressCalls>>
          [] m.kind = "allReact" ->
               \* one element of the end handler's Promise.all settles
               /\ IF allRemaining = 0
                  THEN /\ microtasks' = rest
                       /\ UNCHANGED allRemaining
                  ELSE IF m.rej
                  THEN /\ allRemaining' = 0
                       /\ microtasks' = Append(rest,
                                          MT("endFinish", 0, 0, TRUE))
                  ELSE /\ allRemaining' = allRemaining - 1
                       /\ microtasks' =
                            IF allRemaining = 1
                            THEN Append(rest, MT("endFinish", 0, 0, FALSE))
                            ELSE rest
               /\ UNCHANGED <<batchCounter, activeBatches, tasks, result,
                              inflightWrites, progressCalls>>
          [] OTHER ->
               \* "endFinish": end handler after `await Promise.all(...)`
               /\ microtasks' = rest
               /\ IF m.rej
                  THEN /\ result' = [result EXCEPT !.state = "rejected"]
                       /\ UNCHANGED <<inflightWrites, progressCalls>>
                  ELSE /\ inflightWrites' = onProgress(inflightWrites, 90)
                       /\ progressCalls' = Append(progressCalls, 90)
                       /\ result' = [state |-> "resolved",
                                     processed |-> processedCount,
                                     duplicates |-> duplicateCount,
                                     total |-> validRows]
               /\ UNCHANGED <<batchCounter, activeBatches, tasks,
                              allRemaining>>
  /\ UNCHANGED <<batchSize, maxConcurrency, estimatedTotalBatches,
                 totalRows, validRows, batch, processedCount, duplicateCount,
                 errorCount, parserEnded, jobStatus, jobProgress, ctlPc,
                 uploadStatus>>
  /\ UNCHANGED <<csvRow, nonPipeVars>>

\* update_job_progress: one write of this run reaches the jobs row
WriteLands(w) ==
  /\ w \in inflightWrites
  /\ microtasks = <<>>
  /\ inflightWrites' = inflightWrites \ {w}
  /\ jobStatus' = w.status
  /\ jobProgress' = w.progress
  /\ ctlPc' = CASE ctlPc = "await100" /\ w.progress = 100 -> "upload"
                [] ctlPc = "awaitSucceeded" /\ w.status = "succeeded" -> "done"
                [] OTHER -> ctlPc
  /\ UNCHANGED <<batchSize, maxConcurrency, estimatedTotalBatches,
                 totalRows, validRows, batch, batchCounter, activeBatches,
                 processedCount, duplicateCount, errorCount, tasks,
                 microtasks, burstOpen, parserEnded, allRemaining, result,
                 progressCalls, uploadStatus>>
  /\ UNCHANGED <<csvRow, nonPipeVars>>

\* processCSVJob after validateAndProcessCSVStream has resolved
ControllerStep ==
  /\ result.state = "resolved"
  /\ microtasks = <<>>
  /\ CASE ctlPc = "ingest" ->
            /\ inflightWrites' = inflightWrites \cup
                 {[status |-> "running", progress |-> 100]}
            /\ ctlPc' = "await100"
            /\ UNCHANGED uploadStatus
       [] ctlPc = "upload" ->
            /\ uploadStatus' = "completed"
            /\ ctlPc' = "succeed"
            /\ UNCHANGED inflightWrites
       [] ctlPc = "succeed" ->
            /\ inflightWrites' = inflightWrites \cup
                 {[status |-> "succeeded", progress |-> 100]}
            /\ ctlPc' = "awaitSucceeded"
            /\ UNCHANGED uploadStatus
       \* await cleanupUploadChunks: the chunks of the upload are removed
       [] ctlPc = "done" ->
            /\ ctlPc' = "cleaned"
            /\ UNCHANGED <<inflightWrites, uploadStatus>>
       [] OTHER -> FALSE
  /\ UNCHANGED <<batchSize, maxConcurrency, estimatedTotalBatches,
                 totalRows, validRows, batch, batchCounter, activeBatches,
                 processedCount, duplicateCount, errorCount, tasks,
                 microtasks, burstOpen, parserEnded, allRemaining, result,
                 jobStatus, jobProgress, progressCalls>>
  /\ UNCHANGED <<csvRow, nonPipeVars>>

Outcomes == {"ok", "empty", "fail"}

PipeNext ==
  \/ \E r \in RowShapes : RowArrives(r)
  \/ StreamEnds
  \/ RunMicrotask
  \/ \E t \in 1..MaxRows, o \in Outcomes, ins \in 0..MaxBatchSize :
       CommitCompletes(t, o, ins)

\* the pipeline together with the jobs row its progress writes go to
JobNext ==
  \/ \E r \in RowShapes : RowArrives(r)
  \/ StreamEnds
  \/ RunMicrotask
  \/ \E t \in 1..MaxRows, o \in Outcomes, ins \in 0..MaxBatchSize :
       CommitCompletes(t, o, ins)
  \/ \E p \in {0, 10, 90, 100}, st \in {"running", "succeeded"} :
       WriteLands([status |-> st, progress |-> p])
  \/ ControllerStep

\* ------------------------------------------------------------ withRetry
\* the errors of src/types: class and the code its constructor sets
DatabaseErr == [cls |-> "DatabaseError", code |-> "DATABASE_ERROR"]
ValidationErr == [cls |-> "ValidationError", code |-> "VALIDATION_ERROR"]
StorageErr == [cls |-> "StorageError", code |-> "STORAGE_ERROR"]
PlainErr == [cls |-> "Error", code |-> "none"]
Errors == {DatabaseErr, ValidationErr, StorageErr, PlainErr}
NoError == [cls |-> "none", code |-> "none"]
Success == [cls |-> "ok", code |-> "none"]

RECURSIVE Pow2(_)
Pow2(n) == IF n = 0 THEN 1 ELSE 2 * Pow2(n - 1)

\* calculateRetryDelay without the exponential growth
calculateRetryDelay_flat(k) == RETRY_baseDelay

calculateRetryDelay(k) ==
  IF ~RETRY_exponentialBackoff THEN RETRY_baseDelay
  ELSE Min(RETRY_baseDelay * Pow2(k - 1), RETRY_maxDelay)

\* `attempt === maxRetries` tested one pass too late
lastAttempt_late(a, m) == a > m

\* `if (attempt === maxRetries)`: the pass that rethrows instead of sleeping
lastAttempt(a, m) == a = m

\* the test of withRetry's catch block for errors that are rethrown at once
notRetried(e) == e.cls = "DatabaseError" /\ e.code = "VALIDATION_ERROR"

RetryInit ==
  /\ maxRetries \in 1..MaxRetryCeiling
  /\ attempt = 1 /\ retryPc = "call" /\ calls = 0
  /\ sleeps = <<>> /\ history = <<>>
  /\ lastError = NoError /\ thrown = NoError

RetryIdle ==
  /\ maxRetries = RETRY_maxRetries
  /\ attempt = 1 /\ retryPc = "idle" /\ calls = 0
  /\ sleeps = <<>> /\ history = <<>>
  /\ lastError = NoError /\ thrown = NoError

\* one pass of the for loop: `await operation()` and the catch block
Invoke(outcome) ==
  /\ retryPc = "call"
  /\ attempt <= maxRetries
  /\ calls' = calls + 1
  /\ history' = Append(history, outcome)
  /\ IF outcome = Success
     THEN /\ retryPc' = "returned"
          /\ UNCHANGED <<lastError, thrown, sleeps>>
     ELSE /\ lastError' = outcome
          /\ IF notRetried(outcome)
             THEN /\ retryPc' = "thrown" /\ thrown' = outcome
                  /\ UNCHANGED sleeps
             ELSE IF lastAttempt(attempt, maxRetries)
             THEN /\ retryPc' = "thrown" /\ thrown' = outcome
                  /\ UNCHANGED sleeps
             ELSE /\ retryPc' = "sleeping"
                  /\ sleeps' = Append(sleeps, calculateRetryDelay(attempt))
                  /\ UNCHANGED thrown
  /\ UNCHANGED <<maxRetries, attempt>>
  /\ UNCHANGED nonRetryVars

\* the timer of sleep(delay) fires and the loop goes to its next pass
\* (or leaves the loop: `throw lastError!`)
SleepEnds ==
  /\ retryPc = "sleeping"
  /\ attempt' = attempt + 1
  /\ IF attempt + 1 <= maxRetries
     THEN retryPc' = "call" /\ UNCHANGED thrown
     ELSE retryPc' = "thrown" /\ thrown' = lastError
  /\ UNCHANGED <<maxRetries, calls, sleeps, history, lastError>>
  /\ UNCHANGED nonRetryVars

RetryNext ==
  \/ \E outcome \in Errors \cup {Success} : Invoke(outcome)
  \/ SleepEnds

\* ------------------------------------------------- chunk stream reader
\* The files of the storage folder: chunks "<filename>.part<digits>" and a
\* file whose name does not start with the upload's filename.  A chunk is
\* named by the digits after ".part".
PartSuffixes == {<<1>>, <<2>>, <<1, 0>>}
OtherFile == <<>>
Files == PartSuffixes \cup {OtherFile}

\* file.name.startsWith(filename)
startsWithFilename(f) == f # OtherFile

RECURSIVE parseInt(_)
\* parseInt of a string of decimal digits
parseInt(d) ==
  IF d = <<>> THEN 0
  ELSE 10 * parseInt(SubSeq(d, 1, Len(d) - 1)) + d[Len(d)]

\* comparison of two chunk names as strings
lexLess(a, b) ==
  \/ a[1] < b[1]
  \/ a[1] = b[1] /\ Len(a) < Len(b)

\* the comparator of getUploadChunks compared as text
chunkBefore_lexicographic(a, b) == lexLess(a, b)

\* the comparator of getUploadChunks: aIndex - bIndex < 0
chunkBefore(a, b) == parseInt(a) < parseInt(b)

RECURSIVE sortChunks(_)
sortChunks(S) ==
  IF S = {} THEN <<>>
  ELSE LET first == CHOOSE a \in S : \A b \in S \ {a} : chunkBefore(a, b)
       IN <<first>> \o sortChunks(S \ {first})

ChunkInit ==
  /\ listing \in SUBSET Files
  /\ sizes \in [{f \in listing : startsWithFilename(f)} -> 0..MaxSubChunks]
  /\ prepState = "listing" /\ chunks = <<>>
  /\ currentChunkIndex = 0 /\ isReading = FALSE /\ streamEnded = FALSE
  /\ offset = 0 /\ readPc = "none"
  /\ nodeReading = FALSE /\ delivered = <<>> /\ pushedEnd = FALSE
  /\ errorEmitted = FALSE /\ consumer = "pending"

ChunkIdle ==
  /\ listing = {} /\ sizes = <<>>
  /\ prepState = "idle" /\ chunks = <<>>
  /\ currentChunkIndex = 0 /\ isReading = FALSE /\ streamEnded = FALSE
  /\ offset = 0 /\ readPc = "none"
  /\ nodeReading = FALSE /\ delivered = <<>> /\ pushedEnd = FALSE
  /\ errorEmitted = FALSE /\ consumer = "pending"

\* getUploadChunks and the rest of downloadChunksAsStream up to `return stream`
ListChunks(ok) ==
  /\ prepState = "listing"
  /\ IF ~ok \/ listing = {}
     THEN /\ prepState' = "rejected"
          /\ UNCHANGED <<chunks, readPc>>
     ELSE /\ chunks' = sortChunks({f \in listing : startsWithFilename(f)})
          /\ prepState' = "stream"
          /\ readPc' = "idle"
  /\ UNCHANGED <<listing, sizes, currentChunkIndex, isReading, streamEnded,
                 offset, nodeReading, delivered, pushedEnd, errorEmitted,
                 consumer>>
  /\ UNCHANGED nonChunkVars

\* the Readable calls read(): the guard and, if it passes, the first download
ReadCall ==
  /\ prepState = "stream"
  /\ ~nodeReading /\ ~pushedEnd
  /\ nodeReading' = TRUE
  /\ IF isReading \/ streamEnded \/ currentChunkIndex >= Len(chunks)
     THEN UNCHANGED <<isReading, readPc>>
     ELSE isReading' = TRUE /\ readPc' = "download"
  /\ UNCHANGED <<listing, sizes, prepState, chunks, currentChunkIndex,
                 streamEnded, offset, delivered, pushedEnd, errorEmitted,
                 consumer>>
  /\ UNCHANGED nonChunkVars

\* read() after a chunk's inner loop: currentChunkIndex++, then the outer
\* loop goes on with the next download or ends the stream
afterChunk(idx) ==
  IF idx < Len(chunks)
  THEN [readPc |-> "download", isReading |-> TRUE, streamEnded |-> FALSE,
        pushedEnd |-> FALSE]
  ELSE [readPc |-> "idle", isReading |-> FALSE, streamEnded |-> TRUE,
        pushedEnd |-> TRUE]

\* the download of the current chunk returns (data, an error, or no data)
DownloadDone(ok) ==
  /\ readPc = "download"
  /\ IF ~ok
     THEN /\ errorEmitted' = TRUE
          /\ consumer' = IF consumer = "pending" THEN "rejected" ELSE consumer
          /\ isReading' = FALSE
          /\ readPc' = "idle"
          /\ UNCHANGED <<currentChunkIndex, streamEnded, offset, pushedEnd,
                         nodeReading>>
     ELSE IF sizes[chunks[currentChunkIndex + 1]] > 0
     THEN /\ offset' = 0
          /\ readPc' = "push"
          /\ UNCHANGED <<currentChunkIndex, isReading, streamEnded, pushedEnd,
                         errorEmitted, consumer, nodeReading>>
     ELSE LET a == afterChunk(currentChunkIndex + 1)
          IN /\ currentChunkIndex' = currentChunkIndex + 1
             /\ readPc' = a.readPc
             /\ isReading' = a.isReading
             /\ streamEnded' = a.streamEnded
             /\ pushedEnd' = a.pushedEnd
             /\ nodeReading' = IF a.pushedEnd THEN FALSE ELSE nodeReading
             /\ consumer' = IF a.pushedEnd /\ consumer = "pending"
                            THEN "resolved" ELSE consumer
             /\ UNCHANGED <<offset, errorEmitted>>
  /\ UNCHANGED <<listing, sizes, prepState, chunks, delivered>>
  /\ UNCHANGED nonChunkVars

\* one pass of the inner loop: this.push(subChunk), which returns false
\* when the stream's buffer is full
PushSubChunk(full) ==
  /\ readPc = "push"
  /\ delivered' = Append(delivered,
                         <<parseInt(chunks[currentChunkIndex + 1]), offset + 1>>)
  /\ nodeReading' = FALSE
  /\ IF full
     THEN /\ currentChunkIndex' = currentChunkIndex + 1
          /\ offset' = offset + 1
          /\ isReading' = FALSE
          /\ readPc' = "idle"
          /\ UNCHANGED <<streamEnded, pushedEnd, consumer>>
     ELSE IF offset + 1 < sizes[chunks[currentChunkIndex + 1]]
     THEN /\ offset' = offset + 1
          /\ UNCHANGED <<currentChunkIndex, isReading, readPc, streamEnded,
                         pushedEnd, consumer>>
     ELSE LET a == afterChunk(currentChunkIndex + 1)
          IN /\ offset' = offset + 1
             /\ currentChunkIndex' = currentChunkIndex + 1
             /\ readPc' = a.readPc
             /\ isReading' = a.isReading
             /\ streamEnded' = a.streamEnded
             /\ pushedEnd' = a.pushedEnd
             /\ consumer' = IF a.pushedEnd /\ consumer = "pending"
                            THEN "resolved" ELSE consumer
  /\ UNCHANGED <<listing, sizes, prepState, chunks, errorEmitted>>
  /\ UNCHANGED nonChunkVars

\* preprocessCSVStream, the consumer of the stream: every data event is
\* appended to csvData and nothing is parsed or released before the end event
csvData == delivered

ChunkNext ==
  \/ \E ok \in BOOLEAN : ListChunks(ok)
  \/ ReadCall
  \/ \E ok \in BOOLEAN : DownloadDone(ok)
  \/ \E full \in BOOLEAN : PushSubChunk(full)

\* ------------------------------------------- worker loop and processCSVJob
\* The jobs and uploads tables hold one upload per job (same identifier).
JobIds == 1..MaxJobs
NoJob == 0
Null == "null"
NoProgress == -1

\* update_job_progress with `error = p_error`
update_job_progress_errorSet(row, p_status, p_progress, p_error, p_result) ==
  [status   |-> IF p_status # Null THEN p_status ELSE row.status,
   progress |-> IF p_progress # NoProgress THEN p_progress ELSE row.progress,
   error    |-> p_error,
   result   |-> IF p_result # Null THEN p_result ELSE row.result,
   attempts |-> IF p_status = "retrying" THEN row.attempts + 1
                ELSE row.attempts]

\* SQL update_job_progress: the row after the update
update_job_progress(row, p_status, p_progress, p_error, p_result) ==
  [status   |-> IF p_status # Null THEN p_status ELSE row.status,
   progress |-> IF p_progress # NoProgress THEN p_progress ELSE row.progress,
   error    |-> IF p_error # Null THEN p_error
                ELSE IF p_status = "succeeded" THEN Null ELSE row.error,
   result   |-> IF p_result # Null THEN p_result ELSE row.result,
   attempts |-> IF p_status = "retrying" THEN row.attempts + 1
                ELSE row.attempts]

\* SQL update_upload_status: the row after the update
update_upload_status(row, p_status, p_error) ==
  [status |-> IF p_status # Null THEN p_status ELSE row.status,
   error  |-> IF p_error # Null THEN p_error
              ELSE IF p_status = "completed" THEN Null ELSE row.error]

\* SQL get_next_job: the oldest queued job (jobs are created in id order)
get_next_job(js) ==
  LET queued == {j \in JobIds : js[j].status = "queued"}
  IN  IF queued = {} THEN NoJob
      ELSE CHOOSE j \in queued : \A k \in queued : j <= k

\* the record getNextJob hands to the worker loop for the claimed row j
JobShapes == {"ok", "noId", "noUploadId", "badType", "badStatus"}
polledJob(j, shape) ==
  [id        |-> IF shape = "noId" THEN NoJob ELSE j,
   upload_id |-> IF shape = "noUploadId" THEN NoJob ELSE j,
   type      |-> IF shape = "badType" THEN "other" ELSE "csv_process",
   status    |-> IF shape = "badStatus" THEN "queued" ELSE "running"]
NoPolled == [id |-> NoJob, upload_id |-> NoJob, type |-> Null,
             status |-> Null]

validateJob_lax(job) == TRUE

\* validateJob: TRUE when it returns, FALSE when it throws ValidationError
validateJob(job) ==
  /\ ~(job.id = NoJob \/ job.upload_id = NoJob)
  /\ job.type = "csv_process"
  /\ job.status = "running"

markJobFailed_newStatus_inclusive(attempts, ceiling) ==
  IF attempts <= ceiling THEN "retrying" ELSE "failed"

\* markJobFailed: the status it writes
markJobFailed_newStatus(attempts, ceiling) ==
  IF attempts < ceiling THEN "retrying" ELSE "failed"

cleanupUploadChunks_rethrow(ok) == IF ok THEN "done" ELSE "throw"

\* cleanupUploadChunks logs every failure and returns
cleanupUploadChunks_outcome(ok) == "done"

finallyClears_successOnly(path) == path = "success"

\* the finally block of processCSVJob runs clearInterval on every path
finallyClears(path) == TRUE

slotAfterJob_kept(j) == j

\* the finally block of the worker loop: setCurrentJob(null)
slotAfterJob(j) == NoJob

shutdownMayExit_nowait(cur, elapsed) == TRUE

\* gracefulShutdown leaves its wait loop when the slot is empty or the
\* timeout has elapsed
shutdownMayExit(cur, elapsed) == cur = NoJob \/ elapsed

NewJobRow == [status |-> "queued", progress |-> 0, error |-> Null,
              result |-> Null, attempts |-> 0]
NewUploadRow == [status |-> "queued", error |-> Null]

\* the worker after startWorker, before the first pass of its loop
WorkerStart ==
  /\ isRunning = TRUE
  /\ isShuttingDown = FALSE
  /\ currentJob = NoJob
  /\ loopPc = "check"
  /\ processState = "up"
  /\ claimAttempt = 0
  /\ claimRpc = "none"
  /\ claimResult = NoJob
  /\ polled = NoPolled
  /\ shutdownPc = "none"
  /\ timeoutElapsed = FALSE
  /\ signalJob = NoJob
  /\ uploads = [j \in JobIds |-> NewUploadRow]
  /\ storage = JobIds
  /\ pending = {}
  /\ jobPc = "idle"
  /\ heartbeatTimer = NoJob
  /\ ticks = 0
  /\ commits = 0
  /\ errorMessage = Null
  /\ attemptsRead = 0
  /\ returned = "none"
  /\ runLog = <<>>
  /\ before = [id |-> NoJob, job |-> NewJobRow, upload |-> NewUploadRow]
  /\ succeededWritten = {}
  /\ handled = {}

\* every job of the table is queued
WorkerInit ==
  /\ WorkerStart
  /\ jobs = [j \in JobIds |-> NewJobRow]

\* one job in the queue; the other rows of the table are finished jobs
DoneJobRow == [NewJobRow EXCEPT !.status = "succeeded", !.progress = 100]
LifecycleInit ==
  /\ WorkerStart
  /\ jobs = [j \in JobIds |-> IF j = 1 THEN NewJobRow ELSE DoneJobRow]

\* the worker part at rest, for the specifications of the other parts
WorkerIdle ==
  /\ isRunning = FALSE
  /\ isShuttingDown = FALSE
  /\ currentJob = NoJob
  /\ loopPc = "stopped"
  /\ processState = "exited"
  /\ claimAttempt = 0
  /\ claimRpc = "none"
  /\ claimResult = NoJob
  /\ polled = NoPolled
  /\ shutdownPc = "none"
  /\ timeoutElapsed = FALSE
  /\ signalJob = NoJob
  /\ jobs = [j \in JobIds |-> NewJobRow]
  /\ uploads = [j \in JobIds |-> NewUploadRow]
  /\ storage = JobIds
  /\ pending = {}
  /\ jobPc = "idle"
  /\ heartbeatTimer = NoJob
  /\ ticks = 0
  /\ commits = 0
  /\ errorMessage = Null
  /\ attemptsRead = 0
  /\ returned = "none"
  /\ runLog = <<>>
  /\ before = [id |-> NoJob, job |-> NewJobRow, upload |-> NewUploadRow]
  /\ succeededWritten = {}
  /\ handled = {}

\* ---- workerLoop
\* the while condition; a true condition issues the claim call
LoopCheck ==
  /\ processState = "up"
  /\ loopPc = "check"
  /\ IF isRunning /\ ~isShuttingDown
     THEN /\ loopPc' = "claiming"
          /\ claimRpc' = "sent"
          /\ claimAttempt' = 1
     ELSE /\ loopPc' = "stopped"
          /\ UNCHANGED <<claimRpc, claimAttempt>>
  /\ UNCHANGED <<isRunning, isShuttingDown, currentJob, processState,
                 claimResult, polled, shutdownVars, dbVars, runVars,
                 succeededWritten, handled>>
  /\ UNCHANGED nonWorkerVars

\* the database executes a claim call that was sent to it
ClaimExecutes ==
  /\ claimRpc = "sent"
  /\ LET j == get_next_job(jobs)
     IN  /\ claimResult' = j
         /\ jobs' = IF j = NoJob THEN jobs
                    ELSE [jobs EXCEPT ![j].status = "running"]
  /\ claimRpc' = "applied"
  /\ UNCHANGED <<workerStateVars, loopPc, processState, claimAttempt, polled,
                 shutdownVars, uploads, storage, pending, runVars,
                 succeededWritten, handled>>
  /\ UNCHANGED nonWorkerVars

\* the claim call fails; withRetry sends it again until the ceiling of
\* getNextJob, then the loop's catch sleeps
ClaimFails ==
  /\ processState = "up"
  /\ loopPc = "claiming"
  /\ claimRpc = "sent"
  /\ IF claimAttempt = getNextJob_maxRetries
     THEN /\ loopPc' = "sleeping"
          /\ claimRpc' = "none"
          /\ UNCHANGED claimAttempt
     ELSE /\ claimAttempt' = claimAttempt + 1
          /\ UNCHANGED <<loopPc, claimRpc>>
  /\ UNCHANGED <<workerStateVars, processState, claimResult, polled,
                 shutdownVars, dbVars, runVars, succeededWritten, handled>>
  /\ UNCHANGED nonWorkerVars

\* getNextJob returns: no job (sleep), or a job (setCurrentJob)
ClaimReturns(shape) ==
  /\ processState = "up"
  /\ loopPc = "claiming"
  /\ claimRpc = "applied"
  /\ claimRpc' = "none"
  /\ IF claimResult = NoJob
     THEN /\ loopPc' = "sleeping"
          /\ shape = "ok"
          /\ UNCHANGED <<currentJob, polled, runLog, handled, before>>
     ELSE /\ loopPc' = "validate"
          /\ currentJob' = claimResult
          /\ polled' = polledJob(claimResult, shape)
          /\ runLog' = <<>>
          /\ handled' = handled \cup {claimResult}
          /\ before' = [id |-> claimResult, job |-> jobs[claimResult],
                        upload |-> uploads[claimResult]]
  /\ UNCHANGED <<isRunning, isShuttingDown, processState, claimAttempt,
                 claimResult, shutdownVars, dbVars, jobPc, heartbeatTimer,
                 ticks, commits, errorMessage, attemptsRead, returned,
                 succeededWritten>>
  /\ UNCHANGED nonWorkerVars

\* sleep(pollInterval) ends
WakeUp ==
  /\ processState = "up"
  /\ loopPc = "sleeping"
  /\ loopPc' = "check"
  /\ UNCHANGED <<workerStateVars, processState, claimVars, polled,
                 shutdownVars, dbVars, runVars, succeededWritten, handled>>
  /\ UNCHANGED nonWorkerVars

\* validateJob(job); a rejected job goes through catch and finally
Validate ==
  /\ processState = "up"
  /\ loopPc = "validate"
  /\ IF validateJob(polled)
     THEN /\ loopPc' = "processing"
          /\ jobPc' = "start"
          /\ UNCHANGED currentJob
     ELSE /\ loopPc' = "check"
          /\ currentJob' = slotAfterJob(currentJob)
          /\ UNCHANGED jobPc
  /\ UNCHANGED <<isRunning, isShuttingDown, processState, claimVars, polled,
                 shutdownVars, dbVars, heartbeatTimer, ticks, commits,
                 errorMessage, attemptsRead, returned, runLog, before,
                 succeededWritten, handled>>
  /\ UNCHANGED nonWorkerVars

\* processCSVJob has returned: log, incrementJobsProcessed, finally
JobReturns ==
  /\ processState = "up"
  /\ loopPc = "processing"
  /\ jobPc = "return"
  /\ loopPc' = "check"
  /\ jobPc' = "idle"
  /\ currentJob' = slotAfterJob(currentJob)
  /\ UNCHANGED <<isRunning, isShuttingDown, processState, claimVars, polled,
                 shutdownVars, dbVars, heartbeatTimer, ticks, commits,
                 errorMessage, attemptsRead, returned, runLog, before,
                 succeededWritten, handled>>
  /\ UNCHANGED nonWorkerVars

\* ---- processCSVJob
\* one step of processCSVJob: next position, tables, storage, un-awaited
\* writes, and the event it adds to the log of the run
Step(pcN, jobsN, uploadsN, storageN, pendingN, ev) ==
  /\ jobPc' = pcN
  /\ jobs' = jobsN
  /\ uploads' = uploadsN
  /\ storage' = storageN
  /\ pending' = pendingN
  /\ runLog' = IF ev = Null THEN runLog ELSE Append(runLog, ev)

\* an awaited call threw: the catch block takes the message
Throw(msg, ev) ==
  /\ Step("catchUpload", jobs, uploads, storage, pending, ev)
  /\ errorMessage' = msg
  /\ UNCHANGED <<heartbeatTimer, returned>>

\* return from processCSVJob through its finally block
Return(res, path, jobsN, uploadsN, storageN, ev) ==
  /\ Step("return", jobsN, uploadsN, storageN, pending, ev)
  /\ returned' = res
  /\ heartbeatTimer' = IF finallyClears(path) THEN NoJob ELSE heartbeatTimer
  /\ UNCHANGED errorMessage

InJob(pc) ==
  /\ processState = "up"
  /\ loopPc = "processing"
  /\ jobPc = pc

RunFrame ==
  UNCHANGED <<workerStateVars, loopPc, processState, claimVars, polled,
              shutdownVars, before, handled>>

\* setInterval(heartbeat), then the call updateJobProgress(running, 0)
StartJob ==
  /\ InJob("start")
  /\ Step("running0", jobs, uploads, storage, pending, "timer")
  /\ heartbeatTimer' = currentJob
  /\ ticks' = 0
  /\ commits' = 0
  /\ returned' = "none"
  /\ errorMessage' = Null
  /\ UNCHANGED <<attemptsRead, succeededWritten>>
  /\ RunFrame
  /\ UNCHANGED nonWorkerVars

\* await updateJobProgress(job.id, "running", 0)
WriteRunning0(ok) ==
  /\ InJob("running0")
  /\ IF ok
     THEN /\ Step("getUpload",
                  [jobs EXCEPT ![currentJob] =
                     update_job_progress(@, "running", 0, Null, Null)],
                  uploads, storage, pending, "job:running")
          /\ UNCHANGED <<errorMessage, heartbeatTimer, returned>>
     ELSE Throw("transient", Null)
  /\ UNCHANGED <<ticks, commits, attemptsRead, succeededWritten>>
  /\ RunFrame
  /\ UNCHANGED nonWorkerVars

\* await getUpload(job.upload_id)
GetUpload(ok) ==
  /\ InJob("getUpload")
  /\ IF ok
     THEN /\ Step("uploadProcessing", jobs, uploads, storage, pending, Null)
          /\ UNCHANGED <<errorMessage, heartbeatTimer, returned>>
     ELSE Throw("transient", Null)
  /\ UNCHANGED <<ticks, commits, attemptsRead, succeededWritten>>
  /\ RunFrame
  /\ UNCHANGED nonWorkerVars

\* await updateUploadStatus(job.upload_id, "processing")
UploadProcessing(ok) ==
  /\ InJob("uploadProcessing")
  /\ IF ok
     THEN /\ Step("download", jobs,
                  [uploads EXCEPT ![currentJob] =
                     update_upload_status(@, "processing", Null)],
                  storage, pending, "upload:processing")
          /\ UNCHANGED <<errorMessage, heartbeatTimer, returned>>
     ELSE Throw("transient", Null)
  /\ UNCHANGED <<ticks, commits, attemptsRead, succeededWritten>>
  /\ RunFrame
  /\ UNCHANGED nonWorkerVars

\* await downloadChunksAsStream: lists the chunks; no chunk or a failed
\* listing throws StorageError
Download(ok) ==
  /\ InJob("download")
  /\ IF ok /\ currentJob \in storage
     THEN /\ Step("preprocess", jobs, uploads, storage, pending,
                  "chunks:fetch")
          /\ UNCHANGED <<errorMessage, heartbeatTimer, returned>>
     ELSE Throw("transient", "chunks:fetch")
  /\ UNCHANGED <<ticks, commits, attemptsRead, succeededWritten>>
  /\ RunFrame
  /\ UNCHANGED nonWorkerVars

\* await preprocessCSVStream: header found (then onProgress(10) is issued
\* un-awaited), no header in the file, or the chunk stream fails
PreprocessOutcomes == {"header", "noHeader", "streamError"}
Preprocess(outcome) ==
  /\ InJob("preprocess")
  /\ CASE outcome = "header" ->
            /\ Step("ingest", jobs, uploads, storage,
                    pending \cup {[job |-> currentJob, status |-> "running",
                                   progress |-> 10]}, Null)
            /\ UNCHANGED <<errorMessage, heartbeatTimer, returned>>
       [] outcome = "noHeader" -> Throw("structural", Null)
       [] OTHER -> Throw("transient", Null)
  /\ UNCHANGED <<ticks, commits, attemptsRead, succeededWritten>>
  /\ RunFrame
  /\ UNCHANGED nonWorkerVars

\* a batch of the file is handed to batchInsertConnections
CommitBatch ==
  /\ InJob("ingest")
  /\ commits < MaxCommits
  /\ commits' = commits + 1
  /\ Step("ingest", jobs, uploads, storage, pending, "commit")
  /\ UNCHANGED <<errorMessage, heartbeatTimer, returned, ticks, attemptsRead,
                 succeededWritten>>
  /\ RunFrame
  /\ UNCHANGED nonWorkerVars

\* the end handler issues onProgress(90) un-awaited and resolves, or the
\* parser fails and validateAndProcessCSVStream rejects
IngestEnds(ok) ==
  /\ InJob("ingest")
  /\ IF ok
     THEN /\ Step("running100", jobs, uploads, storage,
                  pending \cup {[job |-> currentJob, status |-> "running",
                                 progress |-> 90]}, Null)
          /\ UNCHANGED <<errorMessage, heartbeatTimer, returned>>
     ELSE Throw("transient", Null)
  /\ UNCHANGED <<ticks, commits, attemptsRead, succeededWritten>>
  /\ RunFrame
  /\ UNCHANGED nonWorkerVars

\* await updateJobProgress(job.id, "running", 100)
WriteRunning100(ok) ==
  /\ InJob("running100")
  /\ IF ok
     THEN /\ Step("uploadCompleted",
                  [jobs EXCEPT ![currentJob] =
                     update_job_progress(@, "running", 100, Null, Null)],
                  uploads, storage, pending, "job:running")
          /\ UNCHANGED <<errorMessage, heartbeatTimer, returned>>
     ELSE Throw("transient", Null)
  /\ UNCHANGED <<ticks, commits, attemptsRead, succeededWritten>>
  /\ RunFrame
  /\ UNCHANGED nonWorkerVars

\* await updateUploadStatus(job.upload_id, "completed", bytes_total)
UploadCompleted(ok) ==
  /\ InJob("uploadCompleted")
  /\ IF ok
     THEN /\ Step("jobSucceeded", jobs,
                  [uploads EXCEPT ![currentJob] =
                     update_upload_status(@, "completed", Null)],
                  storage, pending, "upload:completed")
          /\ UNCHANGED <<errorMessage, heartbeatTimer, returned>>
     ELSE Throw("transient", Null)
  /\ UNCHANGED <<ticks, commits, attemptsRead, succeededWritten>>
  /\ RunFrame
  /\ UNCHANGED nonWorkerVars

\* the succeeded write with its failure swallowed: the run goes on to the
\* cleanup although the write was not applied
JobSucceeded_unchecked(ok) ==
  /\ InJob("jobSucceeded")
  /\ Step("cleanupList",
          IF ok THEN [jobs EXCEPT ![currentJob] =
                        update_job_progress(@, "succeeded", 100, Null,
                                            "counts")]
          ELSE jobs,
          uploads, storage, pending, IF ok THEN "job:succeeded" ELSE Null)
  /\ succeededWritten' = IF ok THEN succeededWritten \cup {currentJob}
                         ELSE succeededWritten
  /\ UNCHANGED <<errorMessage, heartbeatTimer, returned>>
  /\ UNCHANGED <<ticks, commits, attemptsRead>>
  /\ RunFrame
  /\ UNCHANGED nonWorkerVars

\* await updateJobProgress(job.id, "succeeded", 100, null, true, result)
JobSucceeded(ok) ==
  /\ InJob("jobSucceeded")
  /\ IF ok
     THEN /\ Step("cleanupList",
                  [jobs EXCEPT ![currentJob] =
                     update_job_progress(@, "succeeded", 100, Null,
                                         "counts")],
                  uploads, storage, pending, "job:succeeded")
          /\ succeededWritten' = succeededWritten \cup {currentJob}
          /\ UNCHANGED <<errorMessage, heartbeatTimer, returned>>
     ELSE /\ Throw("transient", Null)
          /\ UNCHANGED succeededWritten
  /\ UNCHANGED <<ticks, commits, attemptsRead>>
  /\ RunFrame
  /\ UNCHANGED nonWorkerVars

\* cleanupUploadChunks: list the folder
CleanupList(ok) ==
  /\ InJob("cleanupList")
  /\ IF ok /\ currentJob \in storage
     THEN /\ Step("cleanupRemove", jobs, uploads, storage, pending,
                  "chunks:list")
          /\ UNCHANGED <<errorMessage, heartbeatTimer, returned>>
     ELSE IF cleanupUploadChunks_outcome(ok) = "done"
          THEN Return("success", "success", jobs, uploads, storage,
                      "chunks:listFailed")
          ELSE Throw("transient", "chunks:listFailed")
  /\ UNCHANGED <<ticks, commits, attemptsRead, succeededWritten>>
  /\ RunFrame
  /\ UNCHANGED nonWorkerVars

\* cleanupUploadChunks: remove the listed files; then processCSVJob returns
CleanupRemove(ok) ==
  /\ InJob("cleanupRemove")
  /\ IF ok
     THEN Return("success", "success", jobs, uploads,
                 storage \ {currentJob}, "chunks:remove")
     ELSE IF cleanupUploadChunks_outcome(ok) = "done"
          THEN Return("success", "success", jobs, uploads, storage,
                      "chunks:removeFailed")
          ELSE Throw("transient", "chunks:removeFailed")
  /\ UNCHANGED <<ticks, commits, attemptsRead, succeededWritten>>
  /\ RunFrame
  /\ UNCHANGED nonWorkerVars

\* catch block: await updateUploadStatus(job.upload_id, "failed", null, msg);
\* when it throws, the inner catch logs and processCSVJob returns
CatchUpload(ok) ==
  /\ InJob("catchUpload")
  /\ IF ok
     THEN /\ Step("markSelect", jobs,
                  [uploads EXCEPT ![currentJob] =
                     update_upload_status(@, "failed", errorMessage)],
                  storage, pending, "upload:failed")
          /\ UNCHANGED <<errorMessage, heartbeatTimer, returned>>
     ELSE Return("failure", "recordFailed", jobs, uploads, storage, Null)
  /\ UNCHANGED <<ticks, commits, attemptsRead, succeededWritten>>
  /\ RunFrame
  /\ UNCHANGED nonWorkerVars

\* markJobFailed: select attempts
MarkSelect(ok) ==
  /\ InJob("markSelect")
  /\ IF ok
     THEN /\ Step("markUpdate", jobs, uploads, storage, pending, Null)
          /\ attemptsRead' = jobs[currentJob].attempts
          /\ UNCHANGED <<errorMessage, heartbeatTimer, returned>>
     ELSE /\ Return("failure", "recordFailed", jobs, uploads, storage, Null)
          /\ UNCHANGED attemptsRead
  /\ UNCHANGED <<ticks, commits, succeededWritten>>
  /\ RunFrame
  /\ UNCHANGED nonWorkerVars

\* markJobFailed: await updateJobProgress(jobId, newStatus, null, msg)
MarkUpdate(ok) ==
  /\ InJob("markUpdate")
  /\ LET newStatus ==
           markJobFailed_newStatus(attemptsRead, markJobFailed_maxRetries)
     IN  IF ok
         THEN Return("failure", "failure",
                     [jobs EXCEPT ![currentJob] =
                        update_job_progress(@, newStatus, NoProgress, errorMessage,
                                            Null)],
                     uploads, storage,
                     IF newStatus = "retrying" THEN "job:retrying"
                     ELSE "job:failed")
         ELSE Return("failure", "recordFailed", jobs, uploads, storage, Null)
  /\ UNCHANGED <<ticks, commits, attemptsRead, succeededWritten>>
  /\ RunFrame
  /\ UNCHANGED nonWorkerVars

\* a tick of the heartbeat timer: updateJobProgress(job.id, null, null, null,
\* true); the call changes last_heartbeat_at only, so it is applied here
HeartbeatTick ==
  /\ processState = "up"
  /\ heartbeatTimer # NoJob
  /\ ticks < MaxTicks
  /\ ticks' = ticks + 1
  /\ jobs' = [jobs EXCEPT ![heartbeatTimer] =
                update_job_progress(@, Null, NoProgress, Null, Null)]
  /\ UNCHANGED <<workerStateVars, loopPc, processState, claimVars, polled,
                 shutdownVars, uploads, storage, pending, jobPc,
                 heartbeatTimer, commits, errorMessage, attemptsRead,
                 returned, runLog, before, succeededWritten, handled>>
  /\ UNCHANGED nonWorkerVars

\* ---- the database and its other clients
PendingWrites == [job : JobIds, status : {"running"}, progress : {10, 90}]

\* an un-awaited updateJobProgress call reaches the database
PendingLands(w) ==
  /\ w \in pending
  /\ pending' = pending \ {w}
  /\ jobs' = [jobs EXCEPT ![w.job] =
                update_job_progress(@, w.status, w.progress, Null, Null)]
  /\ UNCHANGED <<workerStateVars, loopPc, processState, claimVars, polled,
                 shutdownVars, uploads, storage, runVars, succeededWritten,
                 handled>>
  /\ UNCHANGED nonWorkerVars

\* the scheduler outside the worker puts a retrying job back in the queue
Requeue(j) ==
  /\ jobs[j].status = "retrying"
  /\ jobs' = [jobs EXCEPT ![j].status = "queued"]
  /\ UNCHANGED <<workerStateVars, loopPc, processState, claimVars, polled,
                 shutdownVars, uploads, storage, pending, runVars,
                 succeededWritten, handled>>
  /\ UNCHANGED nonWorkerVars

\* ---- gracefulShutdown
\* the signal handler up to its first await, or to process.exit
Signal ==
  /\ processState = "up"
  /\ shutdownPc = "none"
  /\ isShuttingDown' = TRUE
  /\ signalJob' = currentJob
  /\ IF currentJob # NoJob
     THEN /\ shutdownPc' = "waiting"
          /\ UNCHANGED <<isRunning, processState>>
     ELSE /\ shutdownPc' = "done"
          /\ isRunning' = FALSE
          /\ processState' = "exited"
  /\ UNCHANGED <<currentJob, loopPc, claimVars, polled, timeoutElapsed,
                 dbVars, runVars, succeededWritten, handled>>
  /\ UNCHANGED nonWorkerVars

\* Date.now() - startTime reaches shutdownTimeout
TimeoutElapses ==
  /\ processState = "up"
  /\ shutdownPc = "waiting"
  /\ ~timeoutElapsed
  /\ timeoutElapsed' = TRUE
  /\ UNCHANGED <<workerStateVars, loopPc, processState, claimVars, polled,
                 shutdownPc, signalJob, dbVars, runVars, succeededWritten,
                 handled>>
  /\ UNCHANGED nonWorkerVars

\* sleep(1000) ends and the wait loop's condition is false
ShutdownExits ==
  /\ processState = "up"
  /\ shutdownPc = "waiting"
  /\ shutdownMayExit(currentJob, timeoutElapsed)
  /\ shutdownPc' = "done"
  /\ isRunning' = FALSE
  /\ processState' = "exited"
  /\ UNCHANGED <<isShuttingDown, currentJob, loopPc, claimVars, polled,
                 timeoutElapsed, signalJob, dbVars, runVars,
                 succeededWritten, handled>>
  /\ UNCHANGED nonWorkerVars

\* processCSVJob inside the worker loop, and the database
WorkerCore ==
  \/ LoopCheck
  \/ ClaimExecutes
  \/ ClaimFails
  \/ \E shape \in JobShapes : ClaimReturns(shape)
  \/ WakeUp
  \/ Validate
  \/ JobReturns
  \/ StartJob
  \/ \E ok \in BOOLEAN : WriteRunning0(ok)
  \/ \E ok \in BOOLEAN : GetUpload(ok)
  \/ \E ok \in BOOLEAN : UploadProcessing(ok)
  \/ \E ok \in BOOLEAN : Download(ok)
  \/ \E outcome \in PreprocessOutcomes : Preprocess(outcome)
  \/ CommitBatch
  \/ \E ok \in BOOLEAN : IngestEnds(ok)
  \/ \E ok \in BOOLEAN : WriteRunning100(ok)
  \/ \E ok \in BOOLEAN : UploadCompleted(ok)
  \/ \E ok \in BOOLEAN : JobSucceeded(ok)
  \/ \E ok \in BOOLEAN : CleanupList(ok)
  \/ \E ok \in BOOLEAN : CleanupRemove(ok)
  \/ \E ok \in BOOLEAN : CatchUpload(ok)
  \/ \E ok \in BOOLEAN : MarkSelect(ok)
  \/ \E ok \in BOOLEAN : MarkUpdate(ok)
  \/ HeartbeatTick
  \/ \E w \in PendingWrites : PendingLands(w)

\* a worker that receives a shutdown signal
WorkerNext ==
  \/ WorkerCore
  \/ Signal
  \/ TimeoutElapses
  \/ ShutdownExits

\* the life of one job: runs, failures and re-queueing
LifecycleNext ==
  \/ WorkerCore
  \/ \E j \in JobIds : Requeue(j)

\* ---------------------------------------------------------- batch sizing
MB == 1024 * 1024

\* calculateOptimalBatchSize
calculateOptimalBatchSize(bytes) ==
  IF bytes < 10 * MB THEN 500
  ELSE IF bytes < 100 * MB THEN 1000
  ELSE IF bytes < 1024 * MB THEN 2000
  ELSE 5000

\* the batch size validateAndProcessCSVStream works with: the configured one
\* only when no file size is passed (undefined or 0)
optimizedBatchSizeOf(bytes, size) ==
  IF bytes # 0 THEN calculateOptimalBatchSize(bytes) ELSE size

\* WORKER_BATCH_SIZE (default 1000) and sizes of uploaded files, in bytes
ConfiguredBatchSizes == {500, 1000}
FileSizes == {0, 1, 10 * MB - 1, 10 * MB, 100 * MB, 1024 * MB}

SizingInit ==
  /\ configuredBatchSize \in ConfiguredBatchSizes
  /\ fileSizeBytes \in FileSizes
  /\ optimizedBatchSize = optimizedBatchSizeOf(fileSizeBytes,
                                               configuredBatchSize)
  /\ acceptedRows = 0 /\ batchLength = 0 /\ handedOff = <<>>
  /\ sizingEnded = FALSE

SizeIdle ==
  /\ configuredBatchSize = 1 /\ fileSizeBytes = 0 /\ optimizedBatchSize = 1
  /\ acceptedRows = 0 /\ batchLength = 0 /\ handedOff = <<>>
  /\ sizingEnded = FALSE

\* the data handler for a row that validateCSVRow accepts
AcceptRow ==
  /\ ~sizingEnded
  /\ acceptedRows < MaxAcceptedRows
  /\ acceptedRows' = acceptedRows + 1
  /\ IF batchLength + 1 >= optimizedBatchSize
     THEN /\ handedOff' = Append(handedOff, batchLength + 1)
          /\ batchLength' = 0
     ELSE /\ batchLength' = batchLength + 1
          /\ UNCHANGED handedOff
  /\ UNCHANGED <<configuredBatchSize, fileSizeBytes, optimizedBatchSize,
                 sizingEnded>>
  /\ UNCHANGED nonSizeVars

\* the end handler: the remaining rows form the last batch
SizingEnd ==
  /\ ~sizingEnded
  /\ sizingEnded' = TRUE
  /\ handedOff' = IF batchLength > 0 THEN Append(handedOff, batchLength)
                  ELSE handedOff
  /\ UNCHANGED <<configuredBatchSize, fileSizeBytes, optimizedBatchSize,
                 acceptedRows, batchLength>>
  /\ UNCHANGED nonSizeVars

SizingNext == AcceptRow \/ SizingEnd

\* ------------------------------------------------------------ URL hashing
\* A URL is a sequence over: "L", the text linkedin.com/in in lower case;
\* "U", the same text in upper case; "/"; " ".
UrlChars == {"L", "U", "/", " "}
Strings == UNION {[1..n -> UrlChars] : n \in 0..MaxUrlLen}

\* /linkedin\.com\/in\//i.test(url)
containsProfilePath(url) ==
  \E i \in 1..(Len(url) - 1) : url[i] \in {"L", "U"} /\ url[i + 1] = "/"

\* the URLs of the rows that validateCSVRow accepts
Urls == {u \in Strings : containsProfilePath(u)}

toLowerCase(str) == [i \in 1..Len(str) |-> IF str[i] = "U" THEN "L" ELSE str[i]]

RECURSIVE trimStart(_)
trimStart(str) ==
  IF str # <<>> /\ Head(str) = " " THEN trimStart(Tail(str)) ELSE str

RECURSIVE trimEnd(_)
trimEnd(str) ==
  IF str # <<>> /\ str[Len(str)] = " "
  THEN trimEnd(SubSeq(str, 1, Len(str) - 1)) ELSE str

trim(str) == trimEnd(trimStart(str))

\* str.replace(/\/$/, "")
replaceTrailingSlash(str) ==
  IF str # <<>> /\ str[Len(str)] = "/" THEN SubSeq(str, 1, Len(str) - 1)
  ELSE str

\* SHA-256 in hex: never empty, taken to be free of collisions
sha256(str) == <<"sha256">> \o str

\* the normalisation with the slash removed before the whitespace
normalize_slashFirst(url) == trim(replaceTrailingSlash(toLowerCase(url)))

\* url.toLowerCase().trim().replace(/\/$/, "")
normalize(url) == replaceTrailingSlash(trim(toLowerCase(url)))

\* normalizeAndHashUrl(url, hashCache); the cache is a set of entries
normalizeAndHashUrl(url, cache) ==
  IF url = <<>>
  THEN [normalizedUrl |-> <<>>, hash |-> <<>>, cache |-> cache]
  ELSE LET normalized == normalize(url)
       IN IF \E c \in cache : c.key = normalized
          THEN [normalizedUrl |-> normalized,
                hash |-> (CHOOSE c \in cache : c.key = normalized).value,
                cache |-> cache]
          ELSE [normalizedUrl |-> normalized, hash |-> sha256(normalized),
                cache |-> cache \cup {[key |-> normalized,
                                       value |-> sha256(normalized)]}]

NoOutput == [normalizedUrl |-> <<>>, hash |-> <<>>]

HashInit ==
  /\ urlA \in Urls /\ urlB \in Urls
  /\ hashJob = 1 /\ hashCache = {}
  /\ hashOutA = NoOutput /\ hashOutB = NoOutput
  /\ hashPc = "first"

HashIdle ==
  /\ urlA = <<>> /\ urlB = <<>>
  /\ hashJob = 0 /\ hashCache = {}
  /\ hashOutA = NoOutput /\ hashOutB = NoOutput
  /\ hashPc = "idle"

\* formatRowForSupabase for a row with the URL urlA
HashFirstRow ==
  /\ hashPc = "first"
  /\ LET r == normalizeAndHashUrl(urlA, hashCache)
     IN /\ hashOutA' = [normalizedUrl |-> r.normalizedUrl, hash |-> r.hash]
        /\ hashCache' = r.cache
  /\ hashPc' = "second"
  /\ UNCHANGED <<urlA, urlB, hashJob, hashOutB>>
  /\ UNCHANGED nonHashVars

\* the next job starts: validateAndProcessCSVStream makes a new jobHashCache
NextHashJob ==
  /\ hashPc = "second" /\ hashJob = 1
  /\ hashJob' = 2
  /\ hashCache' = {}
  /\ UNCHANGED <<urlA, urlB, hashOutA, hashOutB, hashPc>>
  /\ UNCHANGED nonHashVars

\* formatRowForSupabase for a later row, with the URL urlB
HashSecondRow ==
  /\ hashPc = "second"
  /\ LET r == normalizeAndHashUrl(urlB, hashCache)
     IN /\ hashOutB' = [normalizedUrl |-> r.normalizedUrl, hash |-> r.hash]
        /\ hashCache' = r.cache
  /\ hashPc' = "done"
  /\ UNCHANGED <<urlA, urlB, hashJob, hashOutA>>
  /\ UNCHANGED nonHashVars

HashNext == HashFirstRow \/ NextHashJob \/ HashSecondRow

\* -------------------------------------------------------- header search
\* A line of the file is the set of the text fragments it contains; the
\* blank line (empty after trim) contains none.
BlankLine == {}
LineShapes ==
  { BlankLine,
    {"Notes:"},
    {"Notes:", "First Name", "Last Name", "URL"},
    {"First Name", "Last Name", "URL"},
    {"first name", "last name", "url"},
    {"First Name", "Last Name"},
    {"Ann", "Lee"} }

\* toLowerCase of a fragment
lowerFragment(f) ==
  CASE f = "Notes:" -> "notes:"
    [] f = "First Name" -> "first name"
    [] f = "Last Name" -> "last name"
    [] f = "URL" -> "url"
    [] f = "Ann" -> "ann"
    [] f = "Lee" -> "lee"
    [] OTHER -> f

\* line.toLowerCase().includes(text)
lowerIncludes(line, text) == \E f \in line : lowerFragment(f) = text

\* the test for the notes section
isNotesLine(line) ==
  \/ lowerIncludes(line, "notes:")
  \/ lowerIncludes(line, "when exporting your connection data")

\* the test for a header row
looksLikeHeader(line) ==
  /\ lowerIncludes(line, "first name")
  /\ lowerIncludes(line, "last name")
  /\ lowerIncludes(line, "url")

RECURSIVE findHeader_noNotesSkip(_, _)
\* the search without the test for the notes section
findHeader_noNotesSkip(ls, i) ==
  IF i >= Len(ls) THEN -1
  ELSE IF ls[i + 1] = BlankLine THEN findHeader_noNotesSkip(ls, i + 1)
  ELSE IF looksLikeHeader(ls[i + 1]) THEN i
  ELSE findHeader_noNotesSkip(ls, i + 1)

RECURSIVE findHeader(_, _)
\* the loop of the end handler from index i on: the index of the header row
\* (counted from 0) or -1
findHeader(ls, i) ==
  IF i >= Len(ls) THEN -1
  ELSE IF ls[i + 1] = BlankLine THEN findHeader(ls, i + 1)
  ELSE IF isNotesLine(ls[i + 1]) THEN findHeader(ls, i + 1)
  ELSE IF looksLikeHeader(ls[i + 1]) THEN i
  ELSE findHeader(ls, i + 1)

\* lines.slice(start)
slice(ls, start) == SubSeq(ls, start + 1, Len(ls))

NotPreprocessed == [state |-> "pending", csv |-> <<>>, error |-> "none"]

HeaderInit ==
  /\ lines \in UNION {[1..n -> LineShapes] : n \in 0..MaxLines}
  /\ headerRowIndex = -1
  /\ preprocessed = NotPreprocessed

HeaderIdle ==
  /\ lines = <<>>
  /\ headerRowIndex = -1
  /\ preprocessed = [state |-> "idle", csv |-> <<>>, error |-> "none"]

\* stream.on("end"): the header search over the accumulated lines
PreprocessEnd ==
  /\ preprocessed.state = "pending"
  /\ headerRowIndex' = findHeader(lines, 0)
  /\ preprocessed' =
       IF headerRowIndex' = -1
       THEN [state |-> "rejected", csv |-> <<>>, error |-> "ValidationError"]
       ELSE [state |-> "resolved", csv |-> slice(lines, headerRowIndex'),
             error |-> "none"]
  /\ UNCHANGED lines
  /\ UNCHANGED nonHeaderVars

\* stream.on("error", reject): the chunk stream fails before its end
PreprocessStreamError ==
  /\ preprocessed.state = "pending"
  /\ preprocessed' = [state |-> "rejected", csv |-> <<>>,
                      error |-> "StorageError"]
  /\ UNCHANGED <<lines, headerRowIndex>>
  /\ UNCHANGED nonHeaderVars

HeaderNext == PreprocessEnd \/ PreprocessStreamError

\* ---------------------------------------------------- progress reporting
ProgressInit ==
  /\ progressEstimate \in 1..MaxProgressEstimate
  /\ finishedBatches = 0
  \* validateAndProcessCSVStream starts with onProgress(10)
  /\ reported = <<[batch |-> 0, value |-> 10]>>
  /\ progressEnded = FALSE

ProgressIdle ==
  /\ progressEstimate = 1 /\ finishedBatches = 0 /\ reported = <<>>
  /\ progressEnded = FALSE

\* processBatch of the next batch number runs to its end; ok: the commit
\* returned, otherwise the catch block ran
BatchFinishes(ok) ==
  /\ ~progressEnded
  /\ finishedBatches < MaxBatchNumber
  /\ finishedBatches' = finishedBatches + 1
  /\ reported' =
       IF ok /\ finishedBatches' % PROGRESS_UPDATE_INTERVAL = 0
       THEN Append(reported,
                   [batch |-> finishedBatches',
                    value |-> batchProgress(finishedBatches',
                                            progressEstimate)])
       ELSE reported
  /\ UNCHANGED <<progressEstimate, progressEnded>>
  /\ UNCHANGED nonProgressVars

\* the end handler after Promise.all: onProgress(90)
ProgressEnd ==
  /\ ~progressEnded
  /\ progressEnded' = TRUE
  /\ reported' = Append(reported, [batch |-> 0, value |-> 90])
  /\ UNCHANGED <<progressEstimate, finishedBatches>>
  /\ UNCHANGED nonProgressVars

ProgressNext == (\E ok \in BOOLEAN : BatchFinishes(ok)) \/ ProgressEnd

\* ------------------------------------------- updateJobProgress on a row
\* SQL update_job_progress: updated_at and last_heartbeat_at after the update
update_job_stamps(stamps, p_heartbeat, now) ==
  [updated_at        |-> now,
   last_heartbeat_at |-> IF p_heartbeat THEN now
                         ELSE stamps.last_heartbeat_at]

\* the arguments of the calls of updateJobProgress in processCSVJob and in
\* the progress callback; every call passes heartbeat = true
HeartbeatArgs == [status |-> Null, progress |-> NoProgress, error |-> Null,
                  result |-> Null]
ProgressArgs ==
  {[status |-> "running", progress |-> p, error |-> Null, result |-> Null] :
     p \in {0, 10, 90, 100}}
SucceededArgs == [status |-> "succeeded", progress |-> 100, error |-> Null,
                  result |-> "counts"]
\* markJobFailed(jobId, errorMessage) for a row with these attempts
FailedArgs(attempts) ==
  [status |-> markJobFailed_newStatus(attempts, markJobFailed_maxRetries),
   progress |-> NoProgress, error |-> "transient", result |-> Null]
NoCall == [args |-> HeartbeatArgs, before |-> NewJobRow, at |-> -1]

BeatInit ==
  /\ beatRow = NewJobRow
  /\ beatStamps = [updated_at |-> 0, last_heartbeat_at |-> 0]
  /\ beatNow = 0
  /\ beatCall = NoCall

BeatIdle ==
  /\ beatRow = NewJobRow
  /\ beatStamps = [updated_at |-> 0, last_heartbeat_at |-> 0]
  /\ beatNow = -1
  /\ beatCall = NoCall

\* NOW() of the database moves on
ClockTick ==
  /\ beatNow \in 0..(MaxClock - 1)
  /\ beatNow' = beatNow + 1
  /\ UNCHANGED <<beatRow, beatStamps, beatCall>>
  /\ UNCHANGED nonBeatVars

\* a call of updateJobProgress(jobId, status, progress, error, true, result)
\* reaches the database
JobWrite(args) ==
  /\ beatNow >= 0
  /\ beatRow' = update_job_progress(beatRow, args.status, args.progress,
                                    args.error, args.result)
  /\ beatStamps' = update_job_stamps(beatStamps, TRUE, beatNow)
  /\ beatCall' = [args |-> args, before |-> beatRow, at |-> beatNow]
  /\ UNCHANGED beatNow
  /\ UNCHANGED nonBeatVars

\* the scheduler outside the worker puts the retrying job back in the
\* queue, and get_next_job claims it
BeatRequeue ==
  /\ beatNow >= 0
  /\ beatRow.status = "retrying"
  /\ beatRow' = [beatRow EXCEPT !.status = "queued"]
  /\ beatCall' = NoCall
  /\ UNCHANGED <<beatStamps, beatNow>>
  /\ UNCHANGED nonBeatVars

BeatNext ==
  \/ ClockTick
  \/ JobWrite(HeartbeatArgs)
  \/ \E a \in ProgressArgs : JobWrite(a)
  \/ JobWrite(SucceededArgs)
  \/ JobWrite(FailedArgs(beatRow.attempts))
  \/ BeatRequeue

\* ------------------------------------ the functions of utils/database
\* the requests a job run sends across the persistence boundary, by the
\* function that sends them; markJobFailed sends a select and, through
\* updateJobProgress, an update
BoundaryCalls == {"getNextJob", "updateJobProgress", "updateUploadStatus",
                  "getUpload", "batchInsertConnections",
                  "markJobFailed:select", "markJobFailed:update"}
NoCallName == "none"

\* whether the function sends the request inside withRetry
viaWithRetry(call) == call \notin {"getUpload", "markJobFailed:select"}

\* the ceiling the function passes to withRetry
retryCeiling(call) ==
  IF call = "getNextJob" THEN getNextJob_maxRetries ELSE RETRY_maxRetries

\* what a failed request throws in the function: DatabaseError for an error
\* answer of the database, the client's Error for a failed connection
TransientErrors == {DatabaseErr, PlainErr}

CallInit ==
  /\ boundaryCall \in BoundaryCalls
  /\ transientFailures \in 0..MaxTransient
  /\ directResult = "none"
  /\ maxRetries = retryCeiling(boundaryCall)
  /\ retryPc = IF viaWithRetry(boundaryCall) THEN "call" ELSE "idle"
  /\ attempt = 1 /\ calls = 0
  /\ sleeps = <<>> /\ history = <<>>
  /\ lastError = NoError /\ thrown = NoError

CallIdle ==
  /\ boundaryCall = NoCallName
  /\ transientFailures = 0
  /\ directResult = "none"

\* the database fails the first transientFailures requests of the call
Answer(sent) ==
  IF sent < transientFailures THEN TransientErrors ELSE {Success}

\* a function without withRetry: one request, its error thrown to the caller
DirectRequest(outcome) ==
  /\ boundaryCall # NoCallName
  /\ ~viaWithRetry(boundaryCall)
  /\ directResult = "none"
  /\ outcome \in Answer(0)
  /\ directResult' = IF outcome = Success THEN "returned" ELSE "thrown"
  /\ UNCHANGED <<boundaryCall, transientFailures>>
  /\ UNCHANGED <<retryVars, nonCallVars>>

\* a function with withRetry: the passes of its loop
RetriedRequest(outcome) ==
  /\ boundaryCall # NoCallName
  /\ viaWithRetry(boundaryCall)
  /\ outcome \in Answer(calls)
  /\ Invoke(outcome)

CallNext ==
  \/ \E outcome \in TransientErrors \cup {Success} : DirectRequest(outcome)
  \/ \E outcome \in TransientErrors \cup {Success} : RetriedRequest(outcome)
  \/ SleepEnds

LateIdle == BeatIdle /\ CallIdle

\* ------------------------------------------------------- specifications
OldAuxIdle == SizeIdle /\ HashIdle /\ HeaderIdle /\ ProgressIdle
AuxIdle == OldAuxIdle /\ LateIdle
MainIdle == PipeIdle /\ RetryIdle /\ ChunkIdle /\ WorkerIdle

Init == PipeInit /\ RetryIdle /\ ChunkIdle /\ WorkerIdle /\ AuxIdle
Next == PipeNext
Spec == Init /\ [][Next]_vars
JobSpec == Init /\ [][JobNext]_vars
RetrySpecInit == RetryInit /\ PipeIdle /\ ChunkIdle /\ WorkerIdle /\ AuxIdle
RetrySpec == RetrySpecInit /\ [][RetryNext]_vars
ChunkSpecInit == ChunkInit /\ PipeIdle /\ RetryIdle /\ WorkerIdle /\ AuxIdle
ChunkSpec == ChunkSpecInit /\ [][ChunkNext]_vars
WorkerSpecInit == WorkerInit /\ PipeIdle /\ RetryIdle /\ ChunkIdle /\ AuxIdle
WorkerSpec == WorkerSpecInit /\ [][WorkerNext]_vars
LifecycleSpecInit ==
  LifecycleInit /\ PipeIdle /\ RetryIdle /\ ChunkIdle /\ AuxIdle
LifecycleSpec == LifecycleSpecInit /\ [][LifecycleNext]_vars
SizingSpecInit ==
  SizingInit /\ MainIdle /\ HashIdle /\ HeaderIdle /\ ProgressIdle
  /\ LateIdle
SizingSpec == SizingSpecInit /\ [][SizingNext]_vars
HashSpecInit ==
  HashInit /\ MainIdle /\ SizeIdle /\ HeaderIdle /\ ProgressIdle
  /\ LateIdle
HashSpec == HashSpecInit /\ [][HashNext]_vars
HeaderSpecInit ==
  HeaderInit /\ MainIdle /\ SizeIdle /\ HashIdle /\ ProgressIdle
  /\ LateIdle
HeaderSpec == HeaderSpecInit /\ [][HeaderNext]_vars
ProgressSpecInit ==
  ProgressInit /\ MainIdle /\ SizeIdle /\ HashIdle /\ HeaderIdle
  /\ LateIdle
ProgressSpec == ProgressSpecInit /\ [][ProgressNext]_vars
\* the chunk reader with a consumer that keeps asking, downloads that
\* return and a read() that runs on once it was called
ChunkFairness ==
  /\ WF_vars(ReadCall)
  /\ WF_vars(\E ok \in BOOLEAN : DownloadDone(ok))
  /\ WF_vars(\E full \in BOOLEAN : PushSubChunk(full))
ChunkFairSpec == ChunkSpecInit /\ [][ChunkNext]_vars /\ ChunkFairness
\* a worker that keeps running (no shutdown signal) over a database that
\* answers: the loop, the run of a job and the writes on their way go on
WorkerFairness == WF_vars(WorkerCore)
WorkerFairSpec == WorkerSpecInit /\ [][WorkerCore]_vars /\ WorkerFairness
BeatSpecInit == BeatInit /\ MainIdle /\ OldAuxIdle /\ CallIdle
BeatSpec == BeatSpecInit /\ [][BeatNext]_vars
CallSpecInit ==
  CallInit /\ PipeIdle /\ ChunkIdle /\ WorkerIdle /\ OldAuxIdle /\ BeatIdle
CallSpec == CallSpecInit /\ [][CallNext]_vars

\* ------------------------------------------------------- pipeline claims
Formed == DOMAIN tasks
Failed == {t \in Formed : tasks[t].outcome = "fail"}
AllSettled == \A t \in Formed : tasks[t].pc = "settled"

\* C1: the number of batch commits in flight (the size of activeBatches)
\* never exceeds the configured concurrency ceiling.
C1_ConcurrencyCeiling == Cardinality(activeBatches) <= maxConcurrency

\* C2: when the final counts are reported, every formed batch has been
\* handed off and its commit has finished.
C2_ReportAfterAllCommits == result.state = "resolved" => AllSettled

\* C3: with commits that return inserted + duplicates = batch size, the
\* reported processed + duplicates never exceeds total and equals it when
\* no batch commit fails.
C3_CountsAddUp ==
  (/\ result.state = "resolved"
   /\ parserEnded /\ AllSettled
   /\ \A t \in Formed : tasks[t].outcome # "empty")
  => /\ result.processed + result.duplicates <= result.total
     /\ Failed = {} => result.processed + result.duplicates = result.total

\* C4: a failed commit adds the batch's rows to errorCount and rejects
\* nothing: no batch is dropped, the result promise is never rejected, and
\* once nothing is queued or in flight every formed batch has been committed.
C4_FailureIsolation ==
  /\ result.state # "rejected"
  /\ \A t \in Formed : tasks[t].pc # "dropped"
  /\ errorCount = SumLen(tasks, Failed)
  /\ (microtasks = <<>> /\ \A t \in Formed : tasks[t].pc # "inflight")
       => AllSettled

\* a batch failed, a batch formed after it was committed, the result resolved
C4_Witness ==
  /\ result.state = "resolved"
  /\ \E f \in Failed : \E t \in Formed :
       t > f /\ tasks[t].pc = "settled" /\ tasks[t].outcome = "ok"
            /\ tasks[t].num > tasks[f].num

\* C10: while the job's persisted status is running, its persisted progress
\* never decreases.
C10_ProgressMonotone ==
  [][(jobStatus = "running" /\ jobStatus' = "running")
       => jobProgress' >= jobProgress]_vars

\* ------------------------------------------------------ withRetry claims
\* a transient (retryable) failure: any error but a validation failure
Retryable(e) == e \in Errors /\ e.code # "VALIDATION_ERROR"
AllRetryableFailures == \A i \in 1..Len(history) : Retryable(history[i])
ExpectedDelays == <<1000, 2000, 4000, 8000, 10000, 10000, 10000, 10000>>

\* C7: an operation that throws a validation failure is invoked exactly
\* once, no backoff sleep is performed, and that error is thrown at once.
C7_TerminalNotRetried ==
  (history # <<>> /\ history[1] = ValidationErr)
  => /\ calls = 1 /\ sleeps = <<>>
     /\ retryPc = "thrown" /\ thrown = ValidationErr

\* C8: with ceiling 3, two retryable failures and then a success give the
\* success after exactly 3 invocations and 2 sleeps, the second longer than
\* the first; the delay after failed attempt k is min(1000 * 2^(k-1), 10000).
C8_BackoffSchedule ==
  /\ \A k \in 1..Len(sleeps) : sleeps[k] = ExpectedDelays[k]
  /\ (/\ maxRetries = 3 /\ Len(history) = 3
      /\ Retryable(history[1]) /\ Retryable(history[2])
      /\ history[3] = Success)
     => /\ retryPc = "returned" /\ calls = 3
        /\ Len(sleeps) = 2 /\ sleeps[2] > sleeps[1]

\* ceiling 3: two transient failures, then the success is returned
C8_Witness ==
  /\ maxRetries = 3 /\ retryPc = "returned"
  /\ history = <<DatabaseErr, DatabaseErr, Success>>
  /\ sleeps = <<1000, 2000>>

\* C9: an operation that fails with a retryable error on every attempt is
\* invoked exactly maxRetries times with maxRetries - 1 sleeps, then the
\* error of the last attempt is thrown; it is never invoked more often.
C9_Exhaustion ==
  /\ calls <= maxRetries
  /\ (AllRetryableFailures /\ Len(history) = maxRetries)
     => /\ retryPc = "thrown" /\ calls = maxRetries
        /\ Len(sleeps) = maxRetries - 1
        /\ thrown = history[maxRetries]
  /\ (AllRetryableFailures /\ retryPc = "thrown") => calls = maxRetries

\* ceiling 3 exhausted by three failures, the last one of another kind
C9_Witness ==
  /\ maxRetries = 3 /\ retryPc = "thrown"
  /\ history = <<DatabaseErr, DatabaseErr, PlainErr>>
  /\ thrown = PlainErr /\ Len(sleeps) = 2

\* -------------------------------------------------- chunk reader claims
RECURSIVE subChunksOf(_, _)
\* the sub-chunks 1..n of chunk number c, in order
subChunksOf(c, n) ==
  IF n = 0 THEN <<>> ELSE Append(subChunksOf(c, n - 1), <<c, n>>)

RECURSIVE expectedFrom(_)
\* the upload's bytes: its chunks by ascending number, each one whole
expectedFrom(S) ==
  IF S = {} THEN <<>>
  ELSE LET lo == CHOOSE a \in S : \A b \in S : parseInt(a) <= parseInt(b)
       IN subChunksOf(parseInt(lo), sizes[lo]) \o expectedFrom(S \ {lo})

Expected == expectedFrom({f \in listing : startsWithFilename(f)})
IsPrefix(a, b) == Len(a) <= Len(b) /\ SubSeq(b, 1, Len(a)) = a
NoOwnChunk == \A f \in listing : ~startsWithFilename(f)
\* nothing is pending and the Readable will not call read() again
ReaderQuiet ==
  /\ prepState # "listing"
  /\ readPc \in {"none", "idle"}
  /\ prepState = "stream" => nodeReading \/ pushedEnd

\* C5: the reader delivers exactly the concatenation of all chunks in
\* ascending numeric order, whatever sub-chunk push reports a full buffer at.
C5_ExactConcatenation ==
  ~errorEmitted
  => /\ IsPrefix(delivered, Expected)
     /\ pushedEnd => delivered = Expected

\* C6: with no chunk for the upload or a failed chunk fetch the run fails:
\* the consumer never gets a normal end, and the run does not stay pending
\* with nothing left to happen.
C6_MissingChunksFail ==
  (prepState # "listing" /\ (NoOwnChunk \/ errorEmitted))
  => /\ consumer # "resolved"
     /\ ReaderQuiet => (prepState = "rejected" \/ consumer = "rejected")

\* ------------------------------------------- job life-cycle claims
Events == {runLog[i] : i \in DOMAIN runLog}
Earlier(ev, i) == \E k \in 1..(i - 1) : runLog[k] = ev
LastEvent == IF runLog = <<>> THEN Null ELSE runLog[Len(runLog)]
CleanupEvents == {"chunks:list", "chunks:listFailed", "chunks:remove",
                  "chunks:removeFailed"}

\* what one step may do to the attempt counter and the failure status of job j
AttemptsRule(j) ==
  /\ jobs'[j].attempts # jobs[j].attempts =>
        /\ jobs'[j].attempts = jobs[j].attempts + 1
        /\ jobs'[j].status = "retrying"
        /\ jobs[j].attempts < markJobFailed_maxRetries
  /\ (jobs'[j].status = "retrying" /\ jobs[j].status # "retrying") =>
        jobs'[j].attempts = jobs[j].attempts + 1
  /\ (jobs'[j].status = "failed" /\ jobs[j].status # "failed") =>
        /\ jobs[j].attempts >= markJobFailed_maxRetries
        /\ jobs'[j].attempts = jobs[j].attempts

C12_FailureRecorded ==
  (jobPc = "return" /\ returned = "failure") =>
     /\ jobs[currentJob].status \in {"retrying", "failed", "queued"}
     /\ uploads[currentJob].status = "failed"

\* C13: after a failed run the upload's and the job's error text both carry
\* the failure message or both are as they were at the claim; after a
\* successful run both are cleared.
C13_ErrorsSetTogether ==
  /\ (jobPc = "return" /\ returned = "failure") =>
        \/ /\ jobs[currentJob].error = errorMessage
           /\ uploads[currentJob].error = errorMessage
        \/ /\ jobs[currentJob].error = before.job.error
           /\ uploads[currentJob].error = before.upload.error
  /\ (jobPc = "return" /\ returned = "success") =>
        /\ jobs[currentJob].error = Null
        /\ uploads[currentJob].error = Null

\* C14: in a run, upload completed is written before job succeeded, and the
\* chunks are listed and removed only after job succeeded; a step of the
\* chunk cleanup leaves the jobs table alone, and a run that wrote succeeded
\* returns success whatever the cleanup did.
C14_SuccessOrder ==
  /\ [](/\ \A i \in DOMAIN runLog :
             /\ runLog[i] = "job:succeeded" =>
                   Earlier("upload:completed", i)
             /\ runLog[i] \in CleanupEvents => Earlier("job:succeeded", i)
        /\ (jobPc = "return" /\ "job:succeeded" \in Events) =>
              returned = "success")
  /\ [][(jobPc \in {"cleanupList", "cleanupRemove"} /\ jobPc' # jobPc) =>
          jobs' = jobs]_vars

\* processCSVJob returns success after the removal of the chunks failed
C14_Witness ==
  /\ jobPc = "return"
  /\ returned = "success"
  /\ LastEvent = "chunks:removeFailed"
  /\ currentJob \in storage

\* C15: once processCSVJob has returned its heartbeat timer is cleared, on
\* every path, and no tick of it starts.
C15_HeartbeatCancelled ==
  /\ [](jobPc \in {"idle", "return"} => heartbeatTimer = NoJob)
  /\ [][ticks' > ticks => jobPc \notin {"idle", "return"}]_vars

\* the run ticked, failed, and the write recording the failure failed too
C15_Witness ==
  /\ jobPc = "return"
  /\ returned = "failure"
  /\ ticks > 0
  /\ "upload:failed" \notin Events
  /\ heartbeatTimer = NoJob

\* C20: a run that failed with a structural error and recorded the failure
\* has left the job failed, with the attempt counter it had at the claim, and
\* has committed no batch.
C20_StructuralErrorTerminal ==
  (/\ jobPc = "return"
   /\ errorMessage = "structural"
   /\ LastEvent \in {"job:retrying", "job:failed"}) =>
     /\ jobs[currentJob].status = "failed"
     /\ jobs[currentJob].attempts = before.job.attempts
     /\ "commit" \notin Events

\* ------------------------------------------------- worker loop claims
\* C16: a worker that has exited leaves no job in status running that it
\* did not take into its current-job slot (no claim takes effect for a
\* worker that is shutting down).
C16_NoClaimAfterShutdown ==
  processState = "exited" =>
     \A j \in JobIds : jobs[j].status = "running" => j \in handled

C18_OneJobAtATime ==
  /\ (processState = "up" /\ claimRpc # "none") =>
        (currentJob = NoJob /\ jobPc = "idle")
  /\ currentJob # NoJob =>
        (currentJob = claimResult /\ loopPc \in {"validate", "processing"})
  /\ jobPc # "idle" => currentJob # NoJob

\* the next claim is issued after a job has been processed to its end
C18_Witness ==
  /\ processState = "up"
  /\ claimRpc = "sent"
  /\ returned # "none"
  /\ handled # {}

\* the record is processable: id and upload_id present, type csv_process,
\* status running
Processable(job) ==
  /\ job.id # NoJob
  /\ job.upload_id # NoJob
  /\ job.type = "csv_process"
  /\ job.status = "running"

\* C19: for a claimed job whose record is not processable the worker does
\* nothing: no timer, no write, no fetch, no commit, no deletion; its rows
\* and its chunks are as they were at the claim.
C19_RejectedJobUntouched ==
  (polled # NoPolled /\ ~Processable(polled)) =>
     /\ runLog = <<>>
     /\ heartbeatTimer = NoJob
     /\ jobs[before.id] = before.job
     /\ uploads[before.id] = before.upload
     /\ before.id \in storage
     /\ \A w \in pending : w.job # before.id

\* a job with a record that is not processable went through the loop
C19_Witness ==
  /\ polled # NoPolled
  /\ ~Processable(polled)
  /\ loopPc = "check"
  /\ currentJob = NoJob

\* ------------------------------------------------- row validation claims
Range(f) == {f[i] : i \in DOMAIN f}
\* the row numbers held by the formed batches, and by the batch being filled
Batched(ts) == UNION {Range(ts[t].rows) : t \in DOMAIN ts}
\* a row that has its first name, last name and a profile URL
Acceptable(r) ==
  /\ r.first # "" /\ r.last # "" /\ r.url # ""
  /\ r.url \in {"https://www.linkedin.com/in/ann-lee"}

\* C21: a row without first name, last name or URL, or whose URL is not a
\* profile URL, leaves the batch, the formed batches and the valid-row count
\* as they were and does not end the run; a valid row is counted and put in
\* a batch whatever came before it, a batched row stays in its batch, and
\* once nothing is queued or in flight every formed batch was committed.
C21_InvalidRowSkipped ==
  /\ [][totalRows' = totalRows + 1 =>
          IF Acceptable(csvRow')
          THEN /\ validRows' = validRows + 1
               /\ totalRows' \in Range(batch') \cup Batched(tasks')
          ELSE /\ validRows' = validRows
               /\ batch' = batch /\ tasks' = tasks
               /\ microtasks' = microtasks
               /\ parserEnded' = parserEnded /\ result' = result]_vars
  /\ [][/\ \A t \in DOMAIN tasks :
             t \in DOMAIN tasks' /\ tasks'[t].rows = tasks[t].rows
        /\ Range(batch) \subseteq Range(batch') \cup Batched(tasks')]_vars
  /\ []((microtasks = <<>> /\ \A t \in Formed : tasks[t].pc # "inflight")
          => AllSettled)

\* the first row was rejected and the second row was committed
C21_Witness ==
  /\ totalRows >= 2
  /\ 1 \notin Range(batch) \cup Batched(tasks)
  /\ \E t \in Formed : /\ 2 \in Range(tasks[t].rows)
                        /\ tasks[t].pc = "settled"
                        /\ tasks[t].outcome = "ok"

\* ------------------------------------------------------ batch size claims
\* ceil(a / b)
CeilDiv(a, b) == (a + b - 1) \div b

\* C22: with the configured batch size B and V accepted rows, exactly
\* ceil(V / B) batches are handed off, every one but the last of B rows and
\* the last of at most B rows, V rows in all, whatever the file's size.
C22_BatchCount ==
  sizingEnded =>
    /\ Len(handedOff) = CeilDiv(acceptedRows, configuredBatchSize)
    /\ \A i \in 1..Len(handedOff) :
         IF i < Len(handedOff) THEN handedOff[i] = configuredBatchSize
         ELSE handedOff[i] \in 1..configuredBatchSize

\* ------------------------------------------- memory and fetch-order claims
\* what a streaming consumer holds at most: the chunk being pushed and one
\* sub-chunk in the stream's buffer
StreamingBudget == MaxSubChunks + 1
\* chunk number j of the sorted list has been pushed whole
PushedWhole(j) ==
  \A k \in 1..sizes[chunks[j]] : <<parseInt(chunks[j]), k>> \in Range(delivered)

\* C23: the data held between the download and the parser stays within a
\* budget that does not grow with the number of chunks of the file; the
\* file is never accumulated whole before it is parsed.
C23_BoundedMemory == Len(csvData) <= StreamingBudget

\* C28: a download is outstanding only inside a read() that holds isReading;
\* the download of a chunk starts only when every earlier chunk was pushed
\* whole; and a read() that has returned starts no download until the
\* stream calls read() again.
C28_SequentialLazyFetch ==
  /\ [](readPc = "download" =>
          /\ isReading
          /\ \A j \in 1..currentChunkIndex : PushedWhole(j))
  /\ [][(readPc = "idle" /\ readPc' = "download")
          => (~nodeReading /\ nodeReading')]_vars

\* ----------------------------------------------------- URL hashing claims
\* str without the spaces before its first and after its last other character
Strip(str) ==
  LET keep == {i \in 1..Len(str) : str[i] # " "}
  IN IF keep = {} THEN <<>>
     ELSE SubSeq(str, CHOOSE i \in keep : \A j \in keep : i <= j,
                      CHOOSE i \in keep : \A j \in keep : i >= j)
\* the canonical form: lower-cased, trimmed, one trailing slash removed
Canon(url) ==
  LET t == Strip([i \in 1..Len(url) |-> IF url[i] = "U" THEN "L" ELSE url[i]])
  IN IF t # <<>> /\ t[Len(t)] = "/" THEN SubSeq(t, 1, Len(t) - 1) ELSE t

\* C24: two URLs with the same canonical form get the same hash and the
\* same stored URL, whether they are hashed in the same job or in two jobs.
C24_HashOfCanonicalForm ==
  hashPc = "done" =>
    /\ Canon(urlA) = Canon(urlB) =>
         /\ hashOutA.hash = hashOutB.hash
         /\ hashOutA.normalizedUrl = hashOutB.normalizedUrl

\* "LINKEDIN.COM/IN//" hashed in one job and " linkedin.com/in//" in the
\* next: different case, leading space, both with a trailing slash removed
C24_Witness ==
  /\ hashPc = "done" /\ hashJob = 2
  /\ urlA = <<"U", "/", "/">> /\ urlB = <<" ", "L", "/", "/">>
  /\ hashOutA.hash = hashOutB.hash

\* ------------------------------------------- back-pressure and order claims
\* the formed batches whose processBatchAsync is inside waitForBatchSlot
Waiting == {t \in Formed : tasks[t].pc \in {"racing", "woken"}}
\* the formed batches whose commit has not finished
Uncommitted == {t \in Formed : tasks[t].pc \notin {"settled", "dropped"}}

\* C25: while a formed batch waits for a slot no further row is produced; at
\* most one formed batch waits at any time; the rows held in formed batches
\* that are not yet committed never exceed (ceiling + 1) * batch size.
C25_BackPressure ==
  /\ [](Cardinality(Waiting) <= 1)
  /\ [](SumLen(tasks, Uncommitted) <= (maxConcurrency + 1) * batchSize)
  /\ [][Waiting # {} => totalRows' = totalRows]_vars

\* the accepted rows in source order: the rows of the formed batches in the
\* order the batches were formed
RECURSIVE AcceptedUpTo(_)
AcceptedUpTo(t) ==
  IF t = 0 THEN <<>> ELSE AcceptedUpTo(t - 1) \o tasks[t].rows
IsIncreasing(seq) == \A i, j \in DOMAIN seq : i < j => seq[i] < seq[j]

\* C26: the batches partition the accepted rows in source order (every
\* batch but the last has B rows, no row is in two batches), and the batch
\* numbered k holds the accepted rows (k-1)*B+1 .. k*B: batch numbers follow
\* the order in which the batches were formed.
C26_SourceOrder ==
  /\ IsIncreasing(AcceptedUpTo(Len(tasks)))
  /\ \A t \in Formed :
       /\ t < Len(tasks) => Len(tasks[t].rows) = batchSize
       /\ tasks[t].num # 0 =>
            tasks[t].rows = SubSeq(AcceptedUpTo(Len(tasks)),
                                   (tasks[t].num - 1) * batchSize + 1,
                                   (tasks[t].num - 1) * batchSize
                                     + Len(tasks[t].rows))

\* two batches waited for a slot at the same time, were numbered 2 and 3,
\* and the commit of batch 3 finished while that of batch 2 was in flight
C26_Witness ==
  /\ Len(tasks) >= 3
  /\ tasks[2].gen >= 1 /\ tasks[3].gen >= 1
  /\ tasks[2].num = 2 /\ tasks[3].num = 3
  /\ tasks[2].pc = "inflight" /\ tasks[3].pc = "settled"

\* ------------------------------------------------------ aggregation claims
RECURSIVE SumIns(_, _)
\* sum of the inserted counts of the tasks of ts whose index is in S
SumIns(ts, S) ==
  IF S = {} THEN 0
  ELSE LET i == CHOOSE x \in S : TRUE
       IN ts[i].ins + SumIns(ts, S \ {i})
Inserted == {t \in Formed : tasks[t].pc = "settled" /\ tasks[t].outcome = "ok"}

\* C27: the final counts of a job are fixed by the outcomes of its batch
\* commits alone, whatever the order the commits complete in: the counters
\* are the sums of the outcomes of the completed commits (inserted rows,
\* duplicate rows, rows of failed batches), and when the final counts are
\* taken no commit is in flight whose completion before or after the last
\* awaited commit would decide whether it is counted.
C27_CountsOrderIndependent ==
  /\ [](/\ processedCount = SumIns(tasks, Inserted)
        /\ duplicateCount = SumLen(tasks, Inserted) - SumIns(tasks, Inserted)
        /\ errorCount = SumLen(tasks, Failed))
  /\ [][(result.state = "pending" /\ result'.state = "resolved")
          => /\ \A t \in DOMAIN tasks : tasks[t].pc # "inflight"
             /\ result'.processed = processedCount
             /\ result'.duplicates = duplicateCount]_vars

\* -------------------------------------------------- header search claims
\* a line that is not blank, is not a notes line and names the three
\* required columns, in any letter case
Qualifies(line) ==
  /\ line # BlankLine
  /\ line \cap {"Notes:", "notes:"} = {}
  /\ \A col \in {{"First Name", "first name"}, {"Last Name", "last name"},
                  {"URL", "url"}} : line \cap col # {}
Qualifying == {i \in 1..Len(lines) : Qualifies(lines[i])}

\* C29: when the stream has ended, the header is the first qualifying line:
\* the lines before it are dropped and the header and all lines after it
\* are handed on unchanged; when no line qualifies the preprocessing is
\* rejected with a validation error.
C29_HeaderLocation ==
  (preprocessed.state # "pending" /\ preprocessed.error # "StorageError") =>
    IF Qualifying = {}
    THEN /\ preprocessed.state = "rejected"
         /\ preprocessed.error = "ValidationError"
    ELSE LET h == CHOOSE i \in Qualifying : \A j \in Qualifying : i <= j
         IN /\ preprocessed.state = "resolved"
            /\ headerRowIndex = h - 1
            /\ preprocessed.csv = SubSeq(lines, h, Len(lines))

\* a notes line that names the three columns and a blank line come first,
\* the header is the third line
C29_Witness ==
  /\ preprocessed.state = "resolved"
  /\ Len(lines) = 3
  /\ lines[1] = {"Notes:", "First Name", "Last Name", "URL"}
  /\ lines[2] = BlankLine
  /\ headerRowIndex = 2

\* ------------------------------------------------------- progress claims
\* the calls of onProgress made by processBatch
BatchDriven == {i \in 1..Len(reported) : reported[i].batch # 0}

\* C30: every value passed to the progress callback lies in 10..90, and a
\* batch-driven call is made only for a batch number that is a multiple of
\* 10, at most once for each.
C30_ProgressRangeAndThrottle ==
  /\ \A i \in 1..Len(reported) : reported[i].value \in 10..90
  /\ \A i \in BatchDriven : reported[i].batch % 10 = 0
  /\ \A i, j \in BatchDriven : reported[i].batch = reported[j].batch => i = j
  /\ Cardinality(BatchDriven) <= finishedBatches \div 10

\* batch 10 of an estimated 20 reports 50, batch 20 and batch 30 report 90
C30_Witness ==
  /\ progressEstimate = 20
  /\ \E i, j, k \in BatchDriven :
       /\ reported[i] = [batch |-> 10, value |-> 50]
       /\ reported[j] = [batch |-> 20, value |-> 90]
       /\ reported[k] = [batch |-> 30, value |-> 90]

\* ------------------------------------------------- job finalization claims
\* the writes of the jobs table that processCSVJob awaits
JobEvents == {"job:running", "job:succeeded", "job:retrying", "job:failed"}
\* the un-awaited writes of job j that have not reached the database
Outstanding(j) == {w \in pending : w.job = j}

\* the order of the awaited job writes in the log of a run
SuccessWriteOrder ==
  \A k \in DOMAIN runLog :
    /\ runLog[k] = "chunks:fetch" => Earlier("job:running", k)
    /\ runLog[k] = "job:succeeded" =>
         \E i \in 1..(k - 1) :
           /\ runLog[i] = "job:running"
           /\ Earlier("chunks:fetch", i)
           /\ \A m \in (i + 1)..(k - 1) : runLog[m] \notin JobEvents

\* C31: in a run, running/0 is written before the chunks are fetched, and
\* the job write before succeeded is running/100 with no job write between
\* them; when the run returned success and every write it issued has
\* landed, the job row is succeeded with progress 100.
C31_SuccessWrites ==
  /\ SuccessWriteOrder
  /\ (jobPc = "return" /\ returned = "success"
        /\ Outstanding(currentJob) = {}) =>
       /\ jobs[currentJob].status = "succeeded"
       /\ jobs[currentJob].progress = 100

\* ---------------------------------------------------- heartbeat claims
\* C32: a call of updateJobProgress with null status, null progress and
\* null error (the heartbeat) leaves status, progress, error, result and
\* attempts of the row as they were, whatever the row's status, and sets
\* both timestamps to the time of the call.
C32_HeartbeatFrame ==
  (beatCall.at >= 0 /\ beatCall.args = HeartbeatArgs) =>
     /\ beatRow = beatCall.before
     /\ beatStamps.updated_at = beatCall.at
     /\ beatStamps.last_heartbeat_at = beatCall.at

\* a heartbeat landed on a failed row that carries an error, later than the
\* write that failed it
C32_Witness ==
  /\ beatCall.args = HeartbeatArgs
  /\ beatCall.before.status = "failed"
  /\ beatCall.before.error = "transient"
  /\ beatCall.at = MaxClock
  /\ beatRow.status = "failed"

\* ------------------------------------------------- retry wrapping claims
CallSettled == retryPc \in {"returned", "thrown"} \/ directResult # "none"
CallReturned == retryPc = "returned" \/ directResult = "returned"

\* C33: each of the calls of a job run across the persistence boundary
\* (claim, progress or heartbeat update, upload status update, upload
\* fetch, batch commit, the select and the update of markJobFailed) that
\* meets one transient failure is tried again and returns.
C33_EveryCallRetried ==
  (CallSettled /\ transientFailures = 1) => CallReturned

\* ------------------------------------------------ end-of-stream claims
\* C34: the stream of an upload that has chunks, read by a consumer that
\* keeps asking, ends (end-of-stream is pushed) unless a chunk fetch fails,
\* whichever pushes report a full buffer.
C34_StreamEnds ==
  (prepState = "stream" /\ chunks # <<>>) ~> (pushedEnd \/ errorEmitted)

\* ------------------------------------------------- final status claims
FinalEvents == {"job:succeeded", "job:retrying", "job:failed"}
\* the run of job j that was claimed last has written a final status
FinalWritten(j) == before.id = j /\ Events \cap FinalEvents # {}

\* C35: a write of a run that lands after the run wrote succeeded, retrying
\* or failed leaves the status and the progress of the job as they are.
C35_FinalStatusKept ==
  [][\A w \in pending \ pending' :
       FinalWritten(w.job) =>
         /\ jobs'[w.job].status = jobs[w.job].status
         /\ jobs'[w.job].progress = jobs[w.job].progress]_vars

\* ------------------------------------------------------ data loss claims
\* the accepted rows of the file that a returned commit has stored
CommittedRows == UNION {Range(tasks[t].rows) : t \in Inserted}

\* C36: when the job is succeeded and its chunks have been deleted, no batch
\* commit has failed and every accepted row is in a batch whose commit
\* returned.
C36_NoRowLost ==
  (ctlPc = "cleaned" /\ jobStatus = "succeeded") =>
     /\ Failed = {}
     /\ batch = <<>>
     /\ Batched(tasks) = CommittedRows

\* ---------------------------------------------------- chunk deletion claims
\* C37: the chunks of an upload are removed only by the cleanup of a run
\* that has written job succeeded, in the step with which the run returns
\* success; a run that returned failure, and a job that is queued, retrying
\* or failed, still has its chunks.
C37_ChunksKeptOnFailure ==
  /\ [][storage' # storage =>
          /\ jobPc = "cleanupRemove"
          /\ "job:succeeded" \in Events
          /\ storage' = storage \ {currentJob}
          /\ jobPc' = "return" /\ returned' = "success"]_vars
  /\ []((jobPc = "return" /\ returned = "failure") => currentJob \in storage)
  /\ [](\A j \in JobIds :
          jobs[j].status \in {"queued", "retrying", "failed"} =>
             j \in storage)

\* a job that failed in an earlier run has fetched its chunks again
C37_Witness ==
  /\ jobPc = "preprocess"
  /\ jobs[currentJob].attempts > 0
  /\ LastEvent = "chunks:fetch"
  /\ currentJob \in storage

\* ---------------------------------------------------- upload status claims
\* a run that ends with the job succeeded does not leave the upload failed
SucceededWithUpload ==
  (jobPc = "return" /\ jobs[currentJob].status = "succeeded") =>
     uploads[currentJob].status # "failed"

\* C38: a run that has written upload completed does not write upload
\* failed afterwards, and no run ends with the job succeeded and the upload
\* failed.
C38_CompletedIsFinal ==
  /\ \A i \in DOMAIN runLog :
       runLog[i] = "upload:failed" => ~Earlier("upload:completed", i)
  /\ SucceededWithUpload

\* ------------------------------------------------------ termination claims
\* C39: every job the worker has claimed and started to process reaches
\* succeeded or failed, and a job in retrying is claimed again (it is
\* running once more).
C39_JobsTerminate ==
  \A j \in JobIds :
    /\ (currentJob = j /\ jobPc = "start")
          ~> (jobs[j].status \in {"succeeded", "failed"})
    /\ (jobs[j].status = "retrying") ~> (jobs[j].status = "running")

\* ------------------------------------------------------ idempotence claims
\* C40: a row whose URL is the normalized URL stored for an earlier row
\* gets that same normalized URL and the same hash.
C40_NormalizeIdempotent ==
  (hashPc = "done" /\ urlB = hashOutA.normalizedUrl) => hashOutB = hashOutA
====
